---- MODULE Spec2Model ----
(***************************************************************************)
(* Model of pyccel's operator nodes (pyccel/ast/operators.py): the         *)
(* parenthesis insertion done by _handle_precedence, the broadcast of two  *)
(* shapes, and the dtype / precision / rank / shape / order rules applied   *)
(* when an operator node is constructed.                                   *)
(*                                                                         *)
(* Model of the C wrapper printer (pyccel/codegen/printing/                *)
(* cwrappercode.py): the adapter generated for a function and the          *)
(* dispatcher generated for an interface, as lists of statements, and the  *)
(* paths a call takes through them.                                        *)
(*                                                                         *)
(* Python's None is modelled as the empty sequence and a present value x   *)
(* as <<x>>, so that a rank, a shape or a precision can be "unknown".      *)
(***************************************************************************)
EXTENDS Integers, Sequences, FiniteSets, TLC

VARIABLES stage, operands, node, shape_1, shape_2, new_shape, expr, code, run

vars == <<stage, operands, node, shape_1, shape_2, new_shape, expr, code, run>>

None == <<>>

Some(x) == <<x>>

\* ------------------------------------------------------------------ bounds

\* Longest shape given to broadcast.
MaxLen == 2

\* Largest rank of an operand of a typed (semantic stage) operator node.
MaxRank == 2

\* Deepest operator tree built at the syntactic stage.
MaxDepth == 2

\* ------------------------------------------------- dimension expressions

\* A shape's extent is an expression: an integer literal, a variable, or the
\* sum of a variable and an integer literal.  An unknown extent is None.
LiteralInteger(k) == [e |-> "LiteralInteger", name |-> "", k |-> k]

Variable_(n) == [e |-> "Variable", name |-> n, k |-> 0]

PyccelAdd_(n, k) == [e |-> "PyccelAdd", name |-> n, k |-> k]

\* pyccel_to_sympy: the symbolic form of an extent, a symbol (or none) plus
\* an integer; sympy normalises n + 0 to n, so two different expressions can
\* have the same symbolic form.
pyccel_to_sympy(e) ==
    IF e.e = "LiteralInteger" THEN [sym |-> "", c |-> e.k]
    ELSE IF e.e = "Variable" THEN [sym |-> e.name, c |-> 0]
    ELSE [sym |-> e.name, c |-> e.k]

\* sympy's Expr.is_constant(): the expression has no free symbol.
is_constant(sy) == sy.sym = ""

\* sy_e1 - sy_e2 for the linear forms above (two different symbols do not
\* cancel; the difference of a symbol with itself is a number).
sy_sub(sy_1, sy_2) ==
    IF sy_1.sym = sy_2.sym THEN [sym |-> "", c |-> sy_1.c - sy_2.c]
    ELSE IF sy_2.sym = "" THEN [sym |-> sy_1.sym, c |-> sy_1.c - sy_2.c]
    ELSE IF sy_1.sym = "" THEN [sym |-> sy_2.sym, c |-> sy_1.c - sy_2.c]
    ELSE [sym |-> "mixed", c |-> sy_1.c - sy_2.c]

sy_one == [sym |-> "", c |-> 1]

\* ------------------------------------------------------------- broadcast

\* (LiteralInteger(1),)*(n - len(shape)) + tuple(shape)
PadShape(shape, n) ==
    [i \in 1..n |-> IF i <= n - Len(shape) THEN LiteralInteger(1)
                    ELSE shape[i - (n - Len(shape))]]

\* The body of broadcast's loop for one aligned pair: the extent appended to
\* new_shape, or None when the pair raises.
BroadcastExtentKeepSymbolic(e1, e2) ==
    LET sy_e1 == pyccel_to_sympy(e1)
        sy_e2 == pyccel_to_sympy(e2)
    IN  IF sy_e1 = sy_e2 THEN Some(e1)
        ELSE IF sy_e1 = sy_one THEN Some(e2)
        ELSE IF sy_e2 = sy_one THEN Some(e1)
        ELSE IF is_constant(sy_e1) /\ ~is_constant(sy_e2) THEN Some(e2)
        ELSE IF is_constant(sy_e2) /\ ~is_constant(sy_e1) THEN Some(e1)
        ELSE IF ~is_constant(sy_e2) /\ ~is_constant(sy_e1)
                /\ ~is_constant(sy_sub(sy_e1, sy_e2)) THEN Some(e1)
        ELSE None

BroadcastExtentNoOneRule(e1, e2) ==
    LET sy_e1 == pyccel_to_sympy(e1)
        sy_e2 == pyccel_to_sympy(e2)
    IN  IF sy_e1 = sy_e2 THEN Some(e1)
        ELSE IF is_constant(sy_e1) /\ ~is_constant(sy_e2) THEN Some(e1)
        ELSE IF is_constant(sy_e2) /\ ~is_constant(sy_e1) THEN Some(e2)
        ELSE IF ~is_constant(sy_e2) /\ ~is_constant(sy_e1)
                /\ ~is_constant(sy_sub(sy_e1, sy_e2)) THEN Some(e1)
        ELSE None

BroadcastExtent(e1, e2) ==
    LET sy_e1 == pyccel_to_sympy(e1)
        sy_e2 == pyccel_to_sympy(e2)
    IN  IF sy_e1 = sy_e2 THEN Some(e1)
        ELSE IF sy_e1 = sy_one THEN Some(e2)
        ELSE IF sy_e2 = sy_one THEN Some(e1)
        ELSE IF is_constant(sy_e1) /\ ~is_constant(sy_e2) THEN Some(e1)
        ELSE IF is_constant(sy_e2) /\ ~is_constant(sy_e1) THEN Some(e2)
        ELSE IF ~is_constant(sy_e2) /\ ~is_constant(sy_e1)
                /\ ~is_constant(sy_sub(sy_e1, sy_e2)) THEN Some(e1)
        ELSE None

\* broadcast(shape_1, shape_2): the new shape, or the PyccelSemanticError
\* raised at the first incompatible pair; its message is formatted with the
\* two shapes the caller passed.
broadcast(s1, s2) ==
    LET a == Len(s1)
        b == Len(s2)
        n == IF a > b THEN a ELSE b
        new_shape_1 == IF b > a THEN PadShape(s1, n) ELSE s1
        new_shape_2 == IF a > b THEN PadShape(s2, n) ELSE s2
        ext == [i \in 1..n |-> BroadcastExtent(new_shape_1[i], new_shape_2[i])]
    IN  IF \E i \in 1..n : ext[i] = None
        THEN [error |-> "PyccelSemanticError", msg |-> <<s1, s2>>]
        ELSE [error |-> "", shape |-> [i \in 1..n |-> ext[i][1]]]

\* ------------------------------------------------------ operator classes

UnaryPlusMinus == {"PyccelUnary", "PyccelUnarySub"}

ArithmeticOperators ==
    {"PyccelPow", "PyccelAdd", "PyccelMul", "PyccelMinus", "PyccelDiv",
     "PyccelMod", "PyccelFloorDiv"}

ComparisonOperators ==
    {"PyccelEq", "PyccelNe", "PyccelLt", "PyccelLe", "PyccelGt", "PyccelGe"}

BooleanOperators == {"PyccelAnd", "PyccelOr", "PyccelIs", "PyccelIsNot"}

UnaryOperators == UnaryPlusMinus \cup {"PyccelNot", "PyccelAssociativeParenthesis"}

\* The _precedence attribute of each operator class.
ClassPrecedence ==
    [c \in UnaryOperators \cup ArithmeticOperators \cup ComparisonOperators
           \cup BooleanOperators \cup {"IfTernaryOperator"} |->
        CASE c = "PyccelAssociativeParenthesis" -> 18
          [] c = "PyccelPow" -> 15
          [] c \in UnaryPlusMinus -> 14
          [] c \in {"PyccelMul", "PyccelDiv", "PyccelMod", "PyccelFloorDiv"} -> 13
          [] c \in {"PyccelAdd", "PyccelMinus"} -> 12
          [] c \in ComparisonOperators \cup {"PyccelIs", "PyccelIsNot"} -> 7
          [] c = "PyccelNot" -> 6
          [] c = "PyccelAnd" -> 5
          [] c = "PyccelOr" -> 4
          [] OTHER -> 3]

\* getattr(a, 'precedence', 17)
DefaultPrecedence == 17

precedence_of(a) ==
    IF a.cls \in DOMAIN ClassPrecedence THEN ClassPrecedence[a.cls]
    ELSE DefaultPrecedence

\* ----------------------------------------------------------- type rules

default_precision_bool == 4

default_precision_real == 8

\* NativeNumeric.index: the position of a numeric dtype in
\* (bool, integer, real, complex).
NativeNumeric == {"bool", "integer", "real", "complex"}

NativeNumeric_index(dtype) ==
    CASE dtype = "bool" -> 0
      [] dtype = "integer" -> 1
      [] dtype = "real" -> 2
      [] dtype = "complex" -> 3

NoneExtent == [e |-> "None", name |-> "", k |-> 0]

\* max(a.precision for a in seq), seq not empty; a missing precision makes
\* Python's max raise, which is reported as None.
max_precision(seq) ==
    IF \E i \in DOMAIN seq : seq[i].precision = None THEN None
    ELSE Some(CHOOSE m \in {seq[i].precision[1] : i \in DOMAIN seq} :
                \A i \in DOMAIN seq : seq[i].precision[1] <= m)

Select(args, dtypes) == SelectSeq(args, LAMBDA a : a.dtype \in dtypes)

Raised(error) == [error |-> error]

\* PyccelUnaryOperator._calculate_dtype
PyccelUnaryOperator_calculate_dtype(args) ==
    [error |-> "", dtype |-> args[1].dtype, precision |-> args[1].precision]

\* PyccelUnaryOperator._calculate_shape_rank
PyccelUnaryOperator_calculate_shape_rank_ScalarShape(args) ==
    [error |-> "", shape |-> Some(<<>>), rank |-> args[1].rank]

PyccelUnaryOperator_calculate_shape_rank(args) ==
    [error |-> "", shape |-> args[1].shape, rank |-> args[1].rank]

\* PyccelNot._calculate_dtype, PyccelComparisonOperator._calculate_dtype and
\* PyccelBooleanOperator._calculate_dtype
Bool_calculate_dtype ==
    [error |-> "", dtype |-> "bool", precision |-> Some(default_precision_bool)]

\* PyccelNot._calculate_shape_rank and PyccelBooleanOperator._calculate_shape_rank
Scalar_calculate_shape_rank ==
    [error |-> "", shape |-> Some(<<>>), rank |-> Some(0)]

\* _handle_str_type: PyccelAdd overrides it, the other classes raise.
handle_str_type_AnyClass(cls, strs) ==
    [error |-> "", dtype |-> "string", precision |-> None]

handle_str_type(cls, strs) ==
    IF cls = "PyccelAdd"
    THEN [error |-> "", dtype |-> "string", precision |-> None]
    ELSE Raised("TypeError")

handle_complex_type(complexes) ==
    [error |-> "", dtype |-> "complex", precision |-> max_precision(complexes)]

handle_real_type(reals) ==
    [error |-> "", dtype |-> "real", precision |-> max_precision(reals)]

\* _handle_integer_type: PyccelDiv overrides it.
handle_integer_type_NoDivOverride(cls, integers) ==
    [error |-> "", dtype |-> "integer", precision |-> max_precision(integers)]

handle_integer_type_Min(cls, integers) ==
    IF cls = "PyccelDiv"
    THEN [error |-> "", dtype |-> "real", precision |-> Some(default_precision_real)]
    ELSE [error |-> "", dtype |-> "integer",
          precision |-> Some(CHOOSE m \in {integers[i].precision[1] : i \in DOMAIN integers} :
                               \A i \in DOMAIN integers : m <= integers[i].precision[1])]

handle_integer_type(cls, integers) ==
    IF cls = "PyccelDiv"
    THEN [error |-> "", dtype |-> "real", precision |-> Some(default_precision_real)]
    ELSE [error |-> "", dtype |-> "integer", precision |-> max_precision(integers)]

\* PyccelBinaryOperator._calculate_dtype
PyccelBinaryOperator_calculate_dtype(cls, args) ==
    LET integers  == Select(args, {"integer", "bool"})
        reals     == Select(args, {"real"})
        complexes == Select(args, {"complex"})
        strs      == Select(args, {"string"})
    IN  IF strs # <<>> THEN handle_str_type(cls, strs)
        ELSE IF complexes # <<>> THEN handle_complex_type(complexes)
        ELSE IF reals # <<>> THEN handle_real_type(reals)
        ELSE IF integers # <<>> THEN handle_integer_type(cls, integers)
        ELSE Raised("TypeError")

max_rank(args) ==
    CHOOSE m \in {args[i].rank[1] : i \in DOMAIN args} :
        \A i \in DOMAIN args : args[i].rank[1] <= m

\* The shape handed to the result when every extent of every operand is known.
BinaryKnownShape(args) == broadcast(args[2].shape[1], args[2].shape[1])

\* PyccelBinaryOperator._calculate_shape_rank
PyccelBinaryOperator_calculate_shape_rank(args) ==
    LET strs == Select(args, {"string"})
        other == Select(args, {"integer", "bool", "real", "complex"})
    IN  IF strs # <<>>
        THEN IF other # <<>> THEN Raised("AssertionError")
             ELSE [error |-> "", shape |-> Some(<<>>), rank |-> Some(0)]
        ELSE IF \E i \in DOMAIN args : args[i].rank = None
        THEN [error |-> "", shape |-> None, rank |-> None]
        ELSE IF \A i \in DOMAIN args : \A j \in DOMAIN args[i].shape[1] :
                    args[i].shape[1][j] # NoneExtent
        THEN LET shape == BinaryKnownShape(args)
             IN  IF shape.error # "" THEN Raised(shape.error)
                 ELSE [error |-> "", shape |-> Some(shape.shape),
                       rank |-> Some(Len(shape.shape))]
        ELSE [error |-> "",
              shape |-> Some([j \in 1..max_rank(args) |-> NoneExtent]),
              rank |-> Some(max_rank(args))]

\* IfTernaryOperator._calculate_dtype
IfTernaryOperator_calculate_dtype_OfValueTrue(args) ==
    LET _precision == max_precision(<<args[2], args[3]>>)
    IN  IF _precision = None THEN Raised("TypeError")
        ELSE [error |-> "", dtype |-> args[2].dtype, precision |-> _precision]

IfTernaryOperator_calculate_dtype(args) ==
    LET value_true  == args[2]
        value_false == args[3]
        _dtype == IF value_true.dtype \in NativeNumeric /\ value_false.dtype \in NativeNumeric
                  THEN IF NativeNumeric_index(value_false.dtype) > NativeNumeric_index(value_true.dtype)
                       THEN value_false.dtype ELSE value_true.dtype
                  ELSE value_true.dtype
        _precision == max_precision(<<value_true, value_false>>)
    IN  IF _precision = None THEN Raised("TypeError")
        ELSE [error |-> "", dtype |-> _dtype, precision |-> _precision]

\* IfTernaryOperator._calculate_shape_rank
IfTernaryOperator_calculate_shape_rank_NoOrderCheck(args) ==
    [error |-> "", shape |-> args[2].shape, rank |-> args[2].rank]

IfTernaryOperator_calculate_shape_rank(args) ==
    LET value_true  == args[2]
        value_false == args[3]
    IN  IF value_true.rank # None /\ value_true.rank[1] > 1
           /\ value_false.order # value_true.order
        THEN Raised("fatal: order")
        ELSE [error |-> "", shape |-> value_true.shape, rank |-> value_true.rank]

\* The _calculate_dtype each class resolves to.
calculate_dtype(cls, args) ==
    IF cls \in UnaryPlusMinus \cup {"PyccelAssociativeParenthesis"}
    THEN PyccelUnaryOperator_calculate_dtype(args)
    ELSE IF cls \in ArithmeticOperators THEN PyccelBinaryOperator_calculate_dtype(cls, args)
    ELSE IF cls = "IfTernaryOperator" THEN IfTernaryOperator_calculate_dtype(args)
    ELSE Bool_calculate_dtype

\* The _calculate_shape_rank each class resolves to.
calculate_shape_rank_ComparisonScalar(cls, args) ==
    IF cls \in UnaryPlusMinus \cup {"PyccelAssociativeParenthesis"}
    THEN PyccelUnaryOperator_calculate_shape_rank(args)
    ELSE IF cls \in ArithmeticOperators
    THEN PyccelBinaryOperator_calculate_shape_rank(args)
    ELSE IF cls = "IfTernaryOperator" THEN IfTernaryOperator_calculate_shape_rank(args)
    ELSE Scalar_calculate_shape_rank

calculate_shape_rank(cls, args) ==
    IF cls \in UnaryPlusMinus \cup {"PyccelAssociativeParenthesis"}
    THEN PyccelUnaryOperator_calculate_shape_rank(args)
    ELSE IF cls \in ArithmeticOperators \cup ComparisonOperators
    THEN PyccelBinaryOperator_calculate_shape_rank(args)
    ELSE IF cls = "IfTernaryOperator" THEN IfTernaryOperator_calculate_shape_rank(args)
    ELSE Scalar_calculate_shape_rank

\* PyccelOperator._set_order
set_order(args) ==
    IF \A i \in DOMAIN args : args[i].order = args[1].order THEN args[1].order
    ELSE "C"

\* PyccelOperator.__init__ once self._args is set: nothing more at the
\* syntactic stage, the dtype, precision, shape, rank and order otherwise.
\* A construction that raises leaves a record with the error and no attribute.
PyccelOperator_attributes(stg, cls, args) ==
    IF stg = "syntactic" THEN [cls |-> cls, args |-> args, error |-> ""]
    ELSE LET dt == calculate_dtype(cls, args)
             sr == calculate_shape_rank(cls, args)
         IN  IF dt.error # "" THEN [cls |-> cls, args |-> args, error |-> dt.error]
             ELSE IF sr.error # "" THEN [cls |-> cls, args |-> args, error |-> sr.error]
             ELSE [cls |-> cls, args |-> args, error |-> "",
                   dtype |-> dt.dtype, precision |-> dt.precision,
                   shape |-> sr.shape, rank |-> sr.rank,
                   order |-> IF sr.rank # None /\ sr.rank[1] > 1
                             THEN set_order(args) ELSE "None"]

\* PyccelAssociativeParenthesis(a): its _handle_precedence returns the
\* argument as it is.
PyccelAssociativeParenthesis(stg, a) ==
    PyccelOperator_attributes(stg, "PyccelAssociativeParenthesis", <<a>>)

\* --------------------------------------------------- parenthesis insertion

\* The test of PyccelOperator._handle_precedence on operand number i
\* (counted from 1 here, from 0 in the source) of precedence q under an
\* operator of precedence p.
needs_parenthesis_Strict(q, p, i) == q < p

needs_parenthesis(q, p, i) == q < p \/ (q = p /\ i # 1)

\* PyccelOperator._handle_precedence
PyccelOperator_handle_precedence(stg, cls, args) ==
    LET precedence == [i \in DOMAIN args |-> precedence_of(args[i])]
        p == ClassPrecedence[cls]
    IN  IF \E i \in DOMAIN args : precedence[i] <= p
        THEN [i \in DOMAIN args |->
                IF needs_parenthesis(precedence[i], p, i)
                THEN PyccelAssociativeParenthesis(stg, args[i])
                ELSE args[i]]
        ELSE args

\* The second pass of the overriding classes: wrap each operand of the
\* given classes.
wrap_instances_Twice(stg, args, classes) ==
    [i \in DOMAIN args |->
        IF args[i].cls \in classes \cup {"PyccelAssociativeParenthesis"}
        THEN PyccelAssociativeParenthesis(stg, args[i])
        ELSE args[i]]

wrap_instances(stg, args, classes) ==
    [i \in DOMAIN args |->
        IF args[i].cls \in classes THEN PyccelAssociativeParenthesis(stg, args[i])
        ELSE args[i]]

\* The classes whose instances the _handle_precedence of class cls wraps
\* after PyccelOperator._handle_precedence has run: the overrides of
\* PyccelUnary, PyccelArithmeticOperator, PyccelAnd and PyccelOr.
clarity_classes(cls) ==
    IF cls \in UnaryPlusMinus \cup ArithmeticOperators THEN UnaryPlusMinus
    ELSE IF cls = "PyccelAnd" THEN {"PyccelOr"}
    ELSE IF cls = "PyccelOr" THEN {"PyccelAnd"}
    ELSE {}

\* The first pass of cls._handle_precedence: PyccelOperator's, which
\* PyccelAssociativeParenthesis replaces by the identity.
handle_precedence_base(stg, cls, args) ==
    IF cls = "PyccelAssociativeParenthesis" THEN args
    ELSE PyccelOperator_handle_precedence(stg, cls, args)

\* The second pass of cls._handle_precedence, on the result of the first.
handle_precedence_clarity(stg, cls, base) ==
    IF clarity_classes(cls) = {} THEN base
    ELSE wrap_instances(stg, base, clarity_classes(cls))

\* ------------------------------------------------------ text of a tree

\* The operator classes whose text is read back: power, unary plus and
\* minus, the arithmetic operators, the comparisons, not, and, or.
PrintedClasses ==
    UnaryPlusMinus \cup {"PyccelNot"} \cup ArithmeticOperators \cup ComparisonOperators
        \cup {"PyccelAnd", "PyccelOr"}

\* The operator written by __repr__ of each class.
operator_text(cls) ==
    CASE cls = "PyccelUnary" -> "+"
      [] cls = "PyccelUnarySub" -> "-"
      [] cls = "PyccelNot" -> "not"
      [] cls = "PyccelPow" -> "**"
      [] cls = "PyccelAdd" -> "+"
      [] cls = "PyccelMul" -> "*"
      [] cls = "PyccelMinus" -> "-"
      [] cls = "PyccelDiv" -> "/"
      [] cls = "PyccelMod" -> "%"
      [] cls = "PyccelFloorDiv" -> "//"
      [] cls = "PyccelEq" -> "=="
      [] cls = "PyccelNe" -> "!="
      [] cls = "PyccelLt" -> "<"
      [] cls = "PyccelLe" -> "<="
      [] cls = "PyccelGt" -> ">"
      [] cls = "PyccelGe" -> ">="
      [] cls = "PyccelAnd" -> "and"
      [] cls = "PyccelOr" -> "or"

\* __repr__: the text of a tree as the sequence of its tokens; a variable
\* is written x.
RECURSIVE repr(_)
repr(n) ==
    IF n.args = <<>> THEN <<"x">>
    ELSE IF n.cls = "PyccelAssociativeParenthesis" THEN <<"(">> \o repr(n.args[1]) \o <<")">>
    ELSE IF Len(n.args) = 1 THEN <<operator_text(n.cls)>> \o repr(n.args[1])
    ELSE repr(n.args[1]) \o <<operator_text(n.cls)>> \o repr(n.args[2])

\* ------------------------------------------- Python's reading of a text

SyntaxNode(cls, args) == [cls |-> cls, args |-> args, error |-> ""]

TokenAt(t, p) == IF p <= Len(t) THEN t[p] ELSE ""

Parsed(tree, pos) == [tree |-> tree, pos |-> pos]

ClassOfBinary(text) ==
    CHOOSE cls \in ArithmeticOperators \cup ComparisonOperators \cup {"PyccelAnd", "PyccelOr"} :
        operator_text(cls) = text

TermOperators == {"*", "/", "%", "//"}

ArithOperators == {"+", "-"}

CompOperators == {"==", "!=", "<", "<=", ">", ">="}

RECURSIVE parse_or_test(_, _)
RECURSIVE parse_or_rest(_, _)
RECURSIVE parse_and_test(_, _)
RECURSIVE parse_and_rest(_, _)
RECURSIVE parse_not_test(_, _)
RECURSIVE parse_comparison(_, _)
RECURSIVE parse_comparison_rest(_, _, _)
RECURSIVE parse_arith_expr(_, _)
RECURSIVE parse_arith_rest(_, _)
RECURSIVE parse_term(_, _)
RECURSIVE parse_term_rest(_, _)
RECURSIVE parse_factor(_, _)
RECURSIVE parse_power(_, _)
RECURSIVE parse_atom(_, _)

\* atom: NAME | '(' test ')'
parse_atom(t, p) ==
    IF TokenAt(t, p) = "("
    THEN CHOOSE r \in {Parsed(inner.tree, inner.pos + 1) : inner \in {parse_or_test(t, p + 1)}} : TRUE
    ELSE Parsed(SyntaxNode("Variable", <<>>), p + 1)

\* power: atom ['**' factor]
parse_power(t, p) ==
    CHOOSE r \in {IF TokenAt(t, a.pos) = "**"
                  THEN CHOOSE q \in {Parsed(SyntaxNode("PyccelPow", <<a.tree, f.tree>>), f.pos) :
                                        f \in {parse_factor(t, a.pos + 1)}} : TRUE
                  ELSE a : a \in {parse_atom(t, p)}} : TRUE

\* factor: ('+' | '-') factor | power
parse_factor(t, p) ==
    IF TokenAt(t, p) \in {"+", "-"}
    THEN CHOOSE r \in {Parsed(SyntaxNode(IF TokenAt(t, p) = "+" THEN "PyccelUnary"
                                         ELSE "PyccelUnarySub", <<f.tree>>), f.pos) :
                        f \in {parse_factor(t, p + 1)}} : TRUE
    ELSE parse_power(t, p)

\* term: factor (('*' | '/' | '%' | '//') factor)*
parse_term_rest(t, left) ==
    IF TokenAt(t, left.pos) \in TermOperators
    THEN CHOOSE r \in {parse_term_rest(t, Parsed(SyntaxNode(ClassOfBinary(TokenAt(t, left.pos)),
                                                           <<left.tree, f.tree>>), f.pos)) :
                        f \in {parse_factor(t, left.pos + 1)}} : TRUE
    ELSE left

parse_term(t, p) ==
    CHOOSE r \in {parse_term_rest(t, f) : f \in {parse_factor(t, p)}} : TRUE

\* arith_expr: term (('+' | '-') term)*
parse_arith_rest(t, left) ==
    IF TokenAt(t, left.pos) \in ArithOperators
    THEN CHOOSE r \in {parse_arith_rest(t, Parsed(SyntaxNode(ClassOfBinary(TokenAt(t, left.pos)),
                                                            <<left.tree, f.tree>>), f.pos)) :
                        f \in {parse_term(t, left.pos + 1)}} : TRUE
    ELSE left

parse_arith_expr(t, p) ==
    CHOOSE r \in {parse_arith_rest(t, f) : f \in {parse_term(t, p)}} : TRUE

\* comparison: expr (comp_op expr)*; one operator gives the comparison of
\* two operands, several give one chained comparison of all the operands.
parse_comparison_rest(t, chain, pos) ==
    IF TokenAt(t, pos) \in CompOperators
    THEN CHOOSE r \in {parse_comparison_rest(t, chain \o <<TokenAt(t, pos), f.tree>>, f.pos) :
                        f \in {parse_arith_expr(t, pos + 1)}} : TRUE
    ELSE Parsed(chain, pos)

parse_comparison(t, p) ==
    CHOOSE r \in {CHOOSE q \in {IF Len(c.tree) = 1 THEN Parsed(c.tree[1], c.pos)
                                ELSE IF Len(c.tree) = 3
                                THEN Parsed(SyntaxNode(ClassOfBinary(c.tree[2]),
                                                       <<c.tree[1], c.tree[3]>>), c.pos)
                                ELSE Parsed(SyntaxNode("Compare", c.tree), c.pos) :
                                    c \in {parse_comparison_rest(t, <<f.tree>>, f.pos)}} : TRUE :
                    f \in {parse_arith_expr(t, p)}} : TRUE

\* not_test: 'not' not_test | comparison
parse_not_test(t, p) ==
    IF TokenAt(t, p) = "not"
    THEN CHOOSE r \in {Parsed(SyntaxNode("PyccelNot", <<f.tree>>), f.pos) :
                        f \in {parse_not_test(t, p + 1)}} : TRUE
    ELSE parse_comparison(t, p)

\* and_test: not_test ('and' not_test)*
parse_and_rest(t, left) ==
    IF TokenAt(t, left.pos) = "and"
    THEN CHOOSE r \in {parse_and_rest(t, Parsed(SyntaxNode("PyccelAnd", <<left.tree, f.tree>>), f.pos)) :
                        f \in {parse_not_test(t, left.pos + 1)}} : TRUE
    ELSE left

parse_and_test(t, p) ==
    CHOOSE r \in {parse_and_rest(t, f) : f \in {parse_not_test(t, p)}} : TRUE

\* or_test: and_test ('or' and_test)*
parse_or_rest(t, left) ==
    IF TokenAt(t, left.pos) = "or"
    THEN CHOOSE r \in {parse_or_rest(t, Parsed(SyntaxNode("PyccelOr", <<left.tree, f.tree>>), f.pos)) :
                        f \in {parse_and_test(t, left.pos + 1)}} : TRUE
    ELSE left

parse_or_test(t, p) ==
    CHOOSE r \in {parse_or_rest(t, f) : f \in {parse_and_test(t, p)}} : TRUE

\* The tree Python reads from a text.
ast_parse(t) == parse_or_test(t, 1).tree

\* The tree without its parenthesis nodes: the operators and their operands.
RECURSIVE operator_tree(_)
operator_tree(n) ==
    IF n.args = <<>> THEN SyntaxNode("Variable", <<>>)
    ELSE IF n.cls = "PyccelAssociativeParenthesis" THEN operator_tree(n.args[1])
    ELSE SyntaxNode(n.cls, [i \in DOMAIN n.args |-> operator_tree(n.args[i])])

RECURSIVE classes_of(_)
classes_of(n) ==
    IF n.args = <<>> THEN {}
    ELSE {n.cls} \cup UNION {classes_of(n.args[i]) : i \in DOMAIN n.args}

\* ----------------------------------------------------------------- ternary

\* isinstance(value, Nil)
isinstance_Nil(value) == value.cls = "Nil"

\* isinstance(value, NativeString): the value is an expression node, and no
\* expression node is an instance of the datatype class.
isinstance_NativeString(value) == value.cls = "NativeString"

\* A construction ended by errors.report(..., severity='fatal').
Fatal(self, msg) == [cls |-> self.cls, args |-> self.args, error |-> msg]

\* The checks of IfTernaryOperator.__init__ on the node super().__init__
\* built: the first fatal report ends the construction.
IfTernaryOperator_checks(self, value_true, value_false) ==
    IF isinstance_Nil(value_true) \/ isinstance_Nil(value_false)
    THEN Fatal(self, "fatal: None")
    ELSE IF isinstance_NativeString(value_true) \/ isinstance_NativeString(value_false)
    THEN Fatal(self, "fatal: String")
    ELSE IF value_true.dtype # value_false.dtype
            /\ (value_true.dtype \notin NativeNumeric \/ value_false.dtype \notin NativeNumeric)
    THEN Fatal(self, "fatal: types")
    ELSE IF value_false.rank # value_true.rank THEN Fatal(self, "fatal: rank")
    ELSE IF value_false.shape # value_true.shape THEN Fatal(self, "fatal: shape")
    ELSE self

\* ---------------------------------------------------------------- operands

\* A typed expression (a variable, a literal, an already typed node) as an
\* operand at the semantic stage.
TypedNode(dtype, precision, shape, rank, order) ==
    [cls |-> "Variable", args |-> <<>>, error |-> "",
     dtype |-> dtype, precision |-> precision,
     shape |-> shape, rank |-> rank, order |-> order]

ScalarTypes ==
    {<<"bool", 4>>, <<"integer", 4>>, <<"integer", 8>>, <<"real", 4>>,
     <<"real", 8>>, <<"complex", 4>>, <<"complex", 8>>, <<"string", 0>>}

ScalarOperands ==
    {TypedNode(t[1], Some(t[2]), Some(<<>>), Some(0), "None") : t \in ScalarTypes}

KnownExtents == {LiteralInteger(1), LiteralInteger(3), LiteralInteger(4)}

\* Shapes of rank r: every extent known, or some of them unknown.
ShapesOfRank(r) ==
    [1..r -> KnownExtents] \cup [1..r -> {LiteralInteger(3), NoneExtent}]

OrdersOfRank(r) == IF r > 1 THEN {"C", "F"} ELSE {"None"}

ArrayOperands ==
    {TypedNode("real", Some(8), Some(sh), Some(Len(sh)), o) :
        sh \in UNION {ShapesOfRank(r) : r \in 1..MaxRank}, o \in {"C", "F", "None"}}

\* Arrays (an array of rank 1 has no order), integer arrays of rank 1, and
\* an expression whose rank is unknown.
TypedOperands ==
    ScalarOperands
    \cup {a \in ArrayOperands : a.order \in OrdersOfRank(a.rank[1])}
    \cup {TypedNode("integer", Some(4), Some(sh), Some(1), "None") : sh \in ShapesOfRank(1)}
    \cup {TypedNode("real", Some(8), None, None, "None")}

\* The null literal.
Nil == [cls |-> "Nil", args |-> <<>>, error |-> "",
        dtype |-> "generic", precision |-> Some(0),
        shape |-> Some(<<>>), rank |-> Some(0), order |-> "None"]

\* A boolean variable (a variable has an order, 'C' unless told otherwise).
ConditionOperands ==
    {TypedNode("bool", Some(4), Some(<<>>), Some(0), o) : o \in {"None", "C"}}

\* An atom at the syntactic stage, where nodes carry no type.
SyntacticLeaf == [cls |-> "Variable", args |-> <<>>, error |-> ""]

RECURSIVE Depth(_)
Depth(n) ==
    IF n.args = <<>> THEN 0
    ELSE 1 + (CHOOSE d \in {Depth(n.args[i]) : i \in DOMAIN n.args} :
                \A i \in DOMAIN n.args : Depth(n.args[i]) <= d)

\* The expressions an operator node can be built from in the current state.
Candidates ==
    IF stage = "syntactic"
    THEN {SyntacticLeaf} \cup (IF Depth(node) < MaxDepth THEN {node} ELSE {})
    ELSE TypedOperands

\* Extents and shapes given to broadcast.
BroadcastExtents ==
    KnownExtents \cup {Variable_("n"), Variable_("m"), PyccelAdd_("n", 0), PyccelAdd_("n", 1)}

BroadcastShapes == UNION {[1..r -> BroadcastExtents] : r \in 0..MaxLen}

\* ------------------------------------------------------------------ actions

Init ==
    /\ stage = "semantic"
    /\ operands = <<>>
    /\ node = SyntacticLeaf
    /\ shape_1 = <<>>
    /\ shape_2 = <<>>
    /\ new_shape = None
    /\ expr = None
    /\ code = None
    /\ run = None

InitSyntactic ==
    /\ stage = "syntactic"
    /\ operands = <<>>
    /\ node = SyntacticLeaf
    /\ shape_1 = <<>>
    /\ shape_2 = <<>>
    /\ new_shape = None
    /\ expr = None
    /\ code = None
    /\ run = None

InitBroadcast ==
    /\ stage = "broadcast"
    /\ operands = <<>>
    /\ node = SyntacticLeaf
    /\ shape_1 \in BroadcastShapes
    /\ shape_2 \in BroadcastShapes
    /\ new_shape = None
    /\ expr = None
    /\ code = None
    /\ run = None

\* At the semantic stage one node is built from typed operands; at the
\* syntactic stage the node built last can be an operand of the next.
CanConstruct ==
    \/ stage = "syntactic"
    \/ stage = "semantic" /\ operands = <<>>

\* cls(*args): PyccelOperator.__init__ (self._args from the two passes of
\* _handle_precedence, then the attributes), followed for a ternary node at
\* the semantic stage by the checks of IfTernaryOperator.__init__.
Construct(cls, args) ==
    \E base \in {handle_precedence_base(stage, cls, args)} :
      \E _args \in {handle_precedence_clarity(stage, cls, base)} :
        \E self \in {PyccelOperator_attributes(stage, cls, _args)} :
            /\ operands' = args
            /\ node' = IF cls = "IfTernaryOperator" /\ stage = "semantic" /\ self.error = ""
                       THEN IfTernaryOperator_checks(self, args[2], args[3])
                       ELSE self
            /\ UNCHANGED <<stage, shape_1, shape_2, new_shape, expr, code, run>>

\* PyccelUnary(arg), PyccelUnarySub(arg), PyccelNot(arg),
\* PyccelAssociativeParenthesis(arg)
ConstructUnary ==
    /\ CanConstruct
    /\ \E cls \in UnaryOperators, arg \in Candidates : Construct(cls, <<arg>>)

\* PyccelAdd(arg1, arg2), PyccelMul(arg1, arg2), ...
ConstructArithmetic ==
    /\ CanConstruct
    /\ \E cls \in ArithmeticOperators, arg1 \in Candidates, arg2 \in Candidates :
            Construct(cls, <<arg1, arg2>>)

\* PyccelEq(arg1, arg2), PyccelLt(arg1, arg2), ...
ConstructComparison ==
    /\ CanConstruct
    /\ \E cls \in ComparisonOperators, arg1 \in Candidates, arg2 \in Candidates :
            Construct(cls, <<arg1, arg2>>)

\* PyccelAnd(arg1, arg2), PyccelOr(arg1, arg2), PyccelIs(arg1, arg2),
\* PyccelIsNot(arg1, arg2)
ConstructBoolean ==
    /\ CanConstruct
    /\ \E cls \in BooleanOperators, arg1 \in Candidates :
         \E arg2 \in Candidates \cup (IF stage = "semantic" /\ cls \in {"PyccelIs", "PyccelIsNot"}
                                      THEN {Nil} ELSE {}) :
            Construct(cls, <<arg1, arg2>>)

\* IfTernaryOperator(cond, value_true, value_false)
ConstructTernary ==
    /\ CanConstruct
    /\ \E cond \in (IF stage = "semantic" THEN ConditionOperands ELSE Candidates) :
         \E value_true \in Candidates \cup (IF stage = "semantic" THEN {Nil} ELSE {}) :
           \E value_false \in Candidates \cup (IF stage = "semantic" THEN {Nil} ELSE {}) :
            Construct("IfTernaryOperator", <<cond, value_true, value_false>>)

\* new_shape = broadcast(shape_1, shape_2)
Broadcast ==
    /\ stage = "broadcast"
    /\ new_shape = None
    /\ new_shape' = Some(broadcast(shape_1, shape_2))
    /\ UNCHANGED <<stage, operands, node, shape_1, shape_2, expr, code, run>>

Next ==
    \/ ConstructUnary
    \/ ConstructArithmetic
    \/ ConstructComparison
    \/ ConstructBoolean
    \/ ConstructTernary

NextBroadcast == Broadcast

\* Operator nodes built at the semantic stage from typed operands.
Spec == Init /\ [][Next]_vars

\* Operator trees built at the syntactic stage.
SpecSyntactic == InitSyntactic /\ [][Next]_vars

\* broadcast applied to two shapes.
SpecBroadcast == InitBroadcast /\ [][NextBroadcast]_vars

\* ================================================================ C wrapper

\* Most parameters of a wrapped function.
MaxArgs == 2

\* Most results of a wrapped function.
MaxResults == 1

\* ------------------------------------------------- signatures being wrapped

\* An argument of a FunctionDef together with its variable: a Variable of
\* some dtype, precision and rank, optional or not, with a default value or
\* without (value None), or a FunctionAddress.
FunctionDefArgument(cls, dtype, precision, rank, is_optional, value) ==
    [cls |-> cls, dtype |-> dtype, precision |-> precision, rank |-> rank,
     is_optional |-> is_optional, value |-> value]

FunctionDef(name, arguments, results, is_private) ==
    [cls |-> "FunctionDef", name |-> name, arguments |-> arguments,
     results |-> results, is_private |-> is_private]

\* (dtype, precision, rank) of a variable: what a type check tests.
TypeOf(v) == [dtype |-> v.dtype, precision |-> v.precision, rank |-> v.rank]

NoType == [dtype |-> "", precision |-> 0, rank |-> 0]

RECURSIVE Flatten(_)
Flatten(seqs) == IF seqs = <<>> THEN <<>> ELSE Head(seqs) \o Flatten(Tail(seqs))

\* ------------------------------------------------ statements of an adapter

\* A statement of the generated code; `on` and `i` name what it acts on
\* (the parse placeholder, native variable, result box ... number i).
Stmt(op, on, i, val) ==
    [op |-> op, on |-> on, i |-> i, val |-> val, sections |-> <<>>]

Assign(on, i, val) == Stmt("Assign", on, i, val)

AugAssign(on, i) == Stmt("AugAssign", on, i, "+")

Return(on) == Stmt("Return", on, 0, "")

PyErr_SetString(exception, message) == Stmt("PyErr_SetString", exception, 0, message)

FunctionCall(func, i) == Stmt("FunctionCall", func, i, "")

Py_DECREF(i) == Stmt("Py_DECREF", "box", i, "")

Deallocate(i) == Stmt("Deallocate", "native", i, "")

PyArgKeywords == Stmt("PyArgKeywords", "kwlist", 0, "")

If(sections) == [op |-> "If", on |-> "", i |-> 0, val |-> "", sections |-> sections]

IfSection(cond, body) == [cond |-> cond, body |-> body]

\* The condition of an IfSection: test c on placeholder i against type t.
Cond(c, i, t, flag) == [c |-> c, i |-> i, t |-> t, flag |-> flag]

LiteralTrue == Cond("LiteralTrue", 0, NoType, FALSE)

\* PyccelNot(parse_node)
not_PyArg_ParseTupleNode == Cond("not PyArg_ParseTupleNode", 0, NoType, FALSE)

\* PyccelEq(VariableAddress(collect_var), VariableAddress(Py_None))
is_Py_None(i) == Cond("is Py_None", i, NoType, FALSE)

\* PyccelNot(VariableAddress(collect_var))
not_collect_var(i) == Cond("not collect_var", i, NoType, FALSE)

\* scalar_object_check(collect_var, var): true when the object is a scalar
\* of the type of var.
scalar_object_check(i, t) == Cond("scalar_object_check", i, t, FALSE)

\* array_type_check(collect_var, variable): true when the object is an array
\* of the type and rank of variable.
array_type_check(i, t) == Cond("array_type_check", i, t, FALSE)

\* array_checker(collect_var, variable, check_type, language): true when the
\* object is refused (the TypeError is then set); the element type is tested
\* only when check_type is set.
array_checker(i, t, check_type) == Cond("array_checker", i, t, check_type)

\* generate_datatype_error(var)
generate_datatype_error == PyErr_SetString("PyExc_TypeError", "datatype")

\* ------------------------------------------------------- body of an adapter

\* get_PyArgParseType: the placeholder PyArg_ParseTuple fills for a variable.
get_PyArgParseType(variable) ==
    [dtype |-> IF variable.rank > 0 THEN "pyarrayobject" ELSE "pyobject",
     rank |-> variable.rank]

\* get_default_assign(arg, func_arg, value): the initial value of
\* placeholder number i, which is arg.
get_default_assign(i, arg, func_arg) ==
    IF arg.rank > 0 THEN Assign("collect", i, "Nil")
    ELSE IF func_arg.is_optional THEN Assign("collect", i, "Py_None")
    ELSE IF arg.dtype \in {"real", "integer", "bool"} THEN Assign("collect", i, "default")
    ELSE Assign("collect", i, "Py_None")

valued_variable_management_NoTemporary(i, variable) ==
    IF variable.is_optional
    THEN [section |-> IfSection(is_Py_None(i), <<Assign("native", i, "Nil")>>),
          collect_body |-> <<>>]
    ELSE [section |-> IfSection(is_Py_None(i), <<Assign("native", i, "default")>>),
          collect_body |-> <<>>]

\* _valued_variable_management
valued_variable_management(i, variable) ==
    IF variable.is_optional
    THEN [section |-> IfSection(is_Py_None(i), <<Assign("native", i, "Nil")>>),
          collect_body |-> <<Assign("native", i, "tmp")>>]
    ELSE [section |-> IfSection(is_Py_None(i), <<Assign("native", i, "default")>>),
          collect_body |-> <<>>]

\* _body_scalar: the If block of a parameter of rank 0; an optional variable
\* is collected through a temporary.  The variant leaves the error section
\* without its return.
body_scalar_NoReturn(i, variable, error_check) ==
    LET var == IF variable.is_optional THEN "tmp" ELSE "native"
        vvm == valued_variable_management(i, variable)
        collect_value == <<Assign(var, i, "Python_to_C")>>
                         \o (IF variable.value # None THEN vvm.collect_body ELSE <<>>)
    IN  If((IF variable.value # None THEN <<vvm.section>> ELSE <<>>)
           \o (IF error_check
               THEN <<IfSection(scalar_object_check(i, TypeOf(variable)), collect_value),
                      IfSection(LiteralTrue, <<generate_datatype_error>>)>>
               ELSE <<IfSection(LiteralTrue, collect_value)>>))

body_scalar(i, variable, error_check) ==
    LET var == IF variable.is_optional THEN "tmp" ELSE "native"
        vvm == valued_variable_management(i, variable)
        collect_value == <<Assign(var, i, "Python_to_C")>>
                         \o (IF variable.value # None THEN vvm.collect_body ELSE <<>>)
    IN  If((IF variable.value # None THEN <<vvm.section>> ELSE <<>>)
           \o (IF error_check
               THEN <<IfSection(scalar_object_check(i, TypeOf(variable)), collect_value),
                      IfSection(LiteralTrue, <<generate_datatype_error, Return("Nil")>>)>>
               ELSE <<IfSection(LiteralTrue, collect_value)>>))

body_array_Copy(i, variable, check_type, language) ==
    If((IF variable.is_optional
        THEN <<IfSection(not_collect_var(i), <<Assign("native", i, "Nil")>>)>>
        ELSE <<>>)
       \o <<IfSection(array_checker(i, TypeOf(variable), check_type), <<Return("Nil")>>),
            IfSection(LiteralTrue, <<Assign("native", i, "PyArray_NewCopy")>>)>>)

\* _body_array: the If block of a parameter of rank > 0.
body_array(i, variable, check_type, language) ==
    If((IF variable.is_optional
        THEN <<IfSection(not_collect_var(i), <<Assign("native", i, "Nil")>>)>>
        ELSE <<>>)
       \o <<IfSection(array_checker(i, TypeOf(variable), check_type), <<Return("Nil")>>),
            IfSection(LiteralTrue,
                      <<Assign("native", i, IF language = "fortran" THEN "PyArray_DATA"
                                            ELSE "pyarray_to_c_ndarray")>>)>>)

\* _body_management
body_management(i, variable, check_type, language) ==
    IF variable.rank > 0 THEN <<body_array(i, variable, check_type, language)>>
    ELSE <<body_scalar(i, variable, check_type)>>

\* _get_static_function: the statements reading the extents of the array
\* arguments, for Fortran only; the extent of an optional array is read
\* through a ternary on its placeholder.
get_static_function(function, language) ==
    IF language = "fortran"
    THEN Flatten([j \in DOMAIN function.arguments |->
                    [d \in 1..function.arguments[j].rank |->
                        Assign("dim", j, IF function.arguments[j].is_optional
                                         THEN "IfTernaryOperator" ELSE "PyArray_DIM")]])
    ELSE <<>>

\* The statements _print_FunctionDef and _print_Interface share: the blocks
\* of the parameters, the call of function number k, the casts of the
\* results, Py_BuildValue, the releases and the return.
adapter_body(function, k, check_type, language) ==
    LET args == function.arguments
        translations == Flatten([j \in DOMAIN args |->
                            body_management(j, args[j], check_type, language)])
        casts == [r \in DOMAIN function.results |-> Assign("box", r, "C_to_Python")]
        to_free_PyObject_list == [r \in DOMAIN function.results |-> Py_DECREF(r)]
        deallocate == IF language = "c"
                      THEN Flatten([j \in DOMAIN args |->
                              IF args[j].rank > 0 THEN <<Deallocate(j)>> ELSE <<>>])
                      ELSE <<>>
    IN  translations \o get_static_function(function, language)
        \o <<FunctionCall("function", k)>> \o casts
        \o <<Assign("result", 0, "Py_BuildValue")>>
        \o to_free_PyObject_list \o deallocate \o <<Return("result")>>

\* The body of an adapter that only refuses the call.
not_exposed(message) ==
    <<PyErr_SetString("PyExc_NotImplementedError", message),
      Assign("result", 0, "Nil"),
      Return("result")>>

has_FunctionAddress(function) ==
    \E j \in DOMAIN function.arguments : function.arguments[j].cls = "FunctionAddress"

\* _print_FunctionDef once the function is known to be exposed.
wrapper_body(function, language) ==
    LET args == function.arguments
        parse_args == [j \in DOMAIN args |-> get_PyArgParseType(args[j])]
        default_assign == Flatten([j \in DOMAIN args |->
                            IF args[j].value # None
                            THEN <<get_default_assign(j, parse_args[j], args[j])>>
                            ELSE <<>>])
    IN  <<PyArgKeywords>> \o default_assign
        \o <<If(<<IfSection(not_PyArg_ParseTupleNode, <<Return("Nil")>>)>>)>>
        \o adapter_body(function, 1, TRUE, language)

\* _print_FunctionDef: the body of the wrapper function.
print_FunctionDef_CallableFirst(function, language) ==
    IF has_FunctionAddress(function)
    THEN not_exposed("Cannot pass a function as an argument")
    ELSE IF function.is_private
    THEN not_exposed("Private functions are not accessible from python")
    ELSE wrapper_body(function, language)

print_FunctionDef(function, language) ==
    IF function.is_private
    THEN not_exposed("Private functions are not accessible from python")
    ELSE IF has_FunctionAddress(function)
    THEN not_exposed("Cannot pass a function as an argument")
    ELSE wrapper_body(function, language)

\* --------------------------------------------------- a call of an adapter

\* What a run of generated code leaves behind, in order.
Event(ev, on, i) == [ev |-> ev, on |-> on, i |-> i]

\* The state of a run: the parse placeholders, the native variables, the
\* dispatch integer, the result, the events so far and the return.
StartOfCall(n) ==
    [collect |-> [j \in 1..n |-> "unset"], native |-> [j \in 1..n |-> "unset"],
     check |-> 0, result |-> "unset", events |-> <<>>, returned |-> FALSE, ret |-> ""]

Emit(st, events) == [st EXCEPT !.events = @ \o events]

\* The object in placeholder i passes the check of type t.
Passes(st, env, i, t) == st.collect[i] = "obj" /\ t \in env.objs[i].passes

\* The object in placeholder i is an array of the rank of t.
PassesRank(st, env, i, t) ==
    st.collect[i] = "obj" /\ \E u \in env.objs[i].passes : u.rank = t.rank

\* PyArg_ParseTupleAndKeywords: fills the placeholder of every argument the
\* caller gave, or sets an error.
PyArg_ParseTupleAndKeywords(st, env) ==
    IF env.parse_ok
    THEN [Emit(st, <<Event("PyArg_ParseTupleAndKeywords", "ok", 0)>>) EXCEPT
            !.collect = [j \in DOMAIN @ |-> IF env.objs[j].absent THEN @[j] ELSE "obj"]]
    ELSE Emit(st, <<Event("PyArg_ParseTupleAndKeywords", "failed", 0),
                    Event("PyErr_SetString", "PyExc_TypeError", 0)>>)

\* The value of a condition and the state its evaluation leaves.
EvalCond(c, st, env) ==
    CASE c.c = "LiteralTrue" -> [holds |-> TRUE, st |-> st]
      [] c.c = "not PyArg_ParseTupleNode" ->
            [holds |-> ~env.parse_ok, st |-> PyArg_ParseTupleAndKeywords(st, env)]
      [] c.c = "is Py_None" -> [holds |-> st.collect[c.i] = "Py_None", st |-> st]
      [] c.c = "not collect_var" -> [holds |-> st.collect[c.i] = "Nil", st |-> st]
      [] c.c \in {"scalar_object_check", "array_type_check"} ->
            [holds |-> \/ Passes(st, env, c.i, c.t)
                       \/ c.flag /\ st.collect[c.i] = (IF c.t.rank > 0 THEN "Nil" ELSE "Py_None"),
             st |-> Emit(st, <<Event("check", c.c, c.i)>>)]
      [] c.c = "array_checker" ->
            IF (IF c.flag THEN Passes(st, env, c.i, c.t) ELSE PassesRank(st, env, c.i, c.t))
            THEN [holds |-> FALSE, st |-> Emit(st, <<Event("check", c.c, c.i)>>)]
            ELSE [holds |-> TRUE,
                  st |-> Emit(st, <<Event("check", c.c, c.i),
                                    Event("PyErr_SetString", "PyExc_TypeError", c.i)>>)]
      [] c.c = "check ==" -> [holds |-> st.check = c.i, st |-> st]
      [] c.c = "not check" -> [holds |-> st.check = 0, st |-> st]

\* The buffer behind the value a native array variable was given: the
\* data pointer of the caller's array and the view built on it are the
\* caller's own buffer.
data_handle(val) ==
    IF val \in {"PyArray_DATA", "pyarray_to_c_ndarray"} THEN "caller" ELSE "none"

\* A statement other than If and the call of a generated helper; the
\* function called writes the elements of the arrays it is handed.
ExecSimple(s, st) ==
    CASE s.op = "PyArgKeywords" -> st
      [] s.op = "Assign" /\ s.on = "collect" -> [st EXCEPT !.collect[s.i] = s.val]
      [] s.op = "Assign" /\ s.on \in {"native", "tmp"} ->
            [Emit(st, CASE s.val \in {"Python_to_C", "PyArray_DATA"} -> <<Event("extract", s.val, s.i)>>
                        [] s.val = "pyarray_to_c_ndarray" ->
                                <<Event("extract", s.val, s.i), Event("allocate", "ndarray", s.i)>>
                        [] s.val = "default" -> <<Event("default", "native", s.i)>>
                        [] s.val = "Nil" -> <<Event("unset", "native", s.i)>>
                        [] OTHER -> <<>>)
             EXCEPT !.native[s.i] = IF s.on = "tmp" THEN @ ELSE s.val]
      [] s.op = "Assign" /\ s.on = "dim" ->
            IF s.val = "IfTernaryOperator" /\ st.collect[s.i] = "Nil" THEN st
            ELSE Emit(st, <<Event("extent", "PyArray_DIM", s.i)>>)
      [] s.op = "Assign" /\ s.on = "box" -> Emit(st, <<Event("allocate", "box", s.i)>>)
      [] s.op = "Assign" /\ s.on = "result" ->
            [st EXCEPT !.result = IF s.val = "Nil" THEN "Nil" ELSE "value"]
      [] s.op = "Assign" /\ s.on = "check" -> [st EXCEPT !.check = s.i]
      [] s.op = "AugAssign" -> [Emit(st, <<Event("add", s.on, s.i)>>) EXCEPT !.check = @ + s.i]
      [] s.op = "FunctionCall" ->
            Emit(st, <<Event("call", s.on, s.i)>>
                     \o SelectSeq([j \in DOMAIN st.native |-> Event("write", st.native[j], j)],
                                  LAMBDA e : data_handle(e.on) = "caller"))
      [] s.op = "Py_DECREF" -> Emit(st, <<Event("release", "box", s.i)>>)
      [] s.op = "Deallocate" -> Emit(st, <<Event("release", "ndarray", s.i)>>)
      [] s.op = "PyErr_SetString" -> Emit(st, <<Event("PyErr_SetString", s.on, s.i)>>)
      [] s.op = "Return" ->
            [Emit(st, <<Event("return", IF s.on = "result" THEN st.result ELSE s.on, 0)>>)
             EXCEPT !.returned = TRUE, !.ret = s.on]

RECURSIVE Exec(_, _, _, _)
RECURSIVE ExecIf(_, _, _, _)
RECURSIVE ExecStmt(_, _, _)

\* A helper the generated code calls runs on the caller's placeholders with
\* its own local variables; the caller continues with the helper's events.
CallHelper(body, st, env) ==
    Exec(body, 1, [st EXCEPT !.native = [j \in DOMAIN @ |-> "unset"], !.result = "unset"], env)

ExecStmt(s, st, env) ==
    IF s.op = "If" THEN ExecIf(s.sections, 1, st, env)
    ELSE IF s.op = "Assign" /\ s.val = "type_check"
    THEN CHOOSE r \in {[st EXCEPT !.events = h.events,
                                  !.check = IF h.ret = "check" THEN h.check ELSE 0] :
                        h \in {CallHelper(env.code.type_check, st, env)}} : TRUE
    ELSE IF s.op = "Assign" /\ s.val = "mini_wrapper"
    THEN CHOOSE r \in {[st EXCEPT !.events = h.events,
                                  !.result = IF h.ret = "result" THEN h.result ELSE h.ret] :
                        h \in {CallHelper(env.code.mini_wrapper[s.i],
                                           Emit(st, <<Event("forward", "mini_wrapper", s.i)>>),
                                           env)}} : TRUE
    ELSE ExecSimple(s, st)

\* An If block: the body of the first section whose condition holds.
ExecIf(sections, k, st, env) ==
    IF k > Len(sections) THEN st
    ELSE CHOOSE r \in {IF c.holds THEN Exec(sections[k].body, 1, c.st, env)
                       ELSE ExecIf(sections, k + 1, c.st, env) :
                        c \in {EvalCond(sections[k].cond, st, env)}} : TRUE

\* The statements of body from number i on, up to a return.
Exec(body, i, st, env) ==
    IF i > Len(body) \/ st.returned THEN st
    ELSE CHOOSE r \in {Exec(body, i + 1, s1, env) : s1 \in {ExecStmt(body[i], st, env)}} : TRUE

\* What the caller of an adapter gets back.
Returned(st) == IF st.ret = "result" THEN st.result ELSE st.ret

\* ------------------------------------------------------ wrapped functions

\* An object given as an argument: the types whose check it passes; or no
\* object at all (the argument was left out).
PyObject(passes) == [absent |-> FALSE, passes |-> passes]

Absent == [absent |-> TRUE, passes |-> {}]

Real64(rank) == [dtype |-> "real", precision |-> 8, rank |-> rank]

Int32(rank) == [dtype |-> "integer", precision |-> 4, rank |-> rank]

Int64(rank) == [dtype |-> "integer", precision |-> 8, rank |-> rank]

WrapperArguments ==
    {FunctionDefArgument("Variable", "real", 8, 0, FALSE, None),
     FunctionDefArgument("Variable", "real", 8, 0, FALSE, Some("LiteralFloat")),
     FunctionDefArgument("Variable", "real", 8, 0, TRUE, Some("Nil")),
     FunctionDefArgument("Variable", "real", 8, 1, FALSE, None),
     FunctionDefArgument("Variable", "real", 8, 1, TRUE, Some("Nil")),
     FunctionDefArgument("FunctionAddress", "", 0, 0, FALSE, None)}

WrapperResults == {[r \in 1..k |-> Real64(0)] : k \in 0..MaxResults}

WrappedFunctions ==
    {FunctionDef("f", arguments, results, is_private) :
        arguments \in UNION {[1..n -> WrapperArguments] : n \in 0..MaxArgs},
        results \in WrapperResults, is_private \in BOOLEAN}

\* The objects a caller can give for an argument: one of its type, one of
\* another type, or nothing when the argument can be left out.
ObjectsFor(argument) ==
    {PyObject({TypeOf(argument)}), PyObject({})}
        \cup (IF argument.value # None THEN {Absent} ELSE {})

\* The calls of an adapter with the given arguments; a call the parser
\* refuses is taken once.
Calls(arguments, objects(_)) ==
    {c \in [parse_ok : BOOLEAN,
            objs : {o \in [DOMAIN arguments -> UNION {objects(arguments[j]) : j \in DOMAIN arguments}] :
                        \A j \in DOMAIN arguments : o[j] \in objects(arguments[j])}] :
        ~c.parse_ok => \A j \in DOMAIN arguments : c.objs[j] = PyObject({})}

InitWrapper ==
    /\ stage = "wrapper"
    /\ operands = <<>>
    /\ node = SyntacticLeaf
    /\ shape_1 = <<>>
    /\ shape_2 = <<>>
    /\ new_shape = None
    /\ expr \in {[node |-> f, target_language |-> l] :
                    f \in WrappedFunctions, l \in {"c", "fortran"}}
    /\ code = None
    /\ run = None

\* CWrapperCodePrinter._print_FunctionDef(expr)
PrintFunctionDef ==
    /\ stage = "wrapper"
    /\ code = None
    /\ code' = Some([wrapper |-> print_FunctionDef(expr.node, expr.target_language),
                     mini_wrapper |-> <<>>, type_check |-> <<>>, flags |-> <<>>])
    /\ UNCHANGED <<stage, operands, node, shape_1, shape_2, new_shape, expr, run>>

\* The generated wrapper is called from Python.
CallWrapper ==
    /\ stage = "wrapper"
    /\ code # None
    /\ run = None
    /\ \E call \in Calls(expr.node.arguments, ObjectsFor) :
         \E env \in {[parse_ok |-> call.parse_ok, objs |-> call.objs, code |-> code[1]]} :
           \E st \in {Exec(code[1].wrapper, 1, StartOfCall(Len(expr.node.arguments)), env)} :
              run' = Some([call |-> call, events |-> st.events, check |-> st.check,
                           native |-> st.native, returns |-> Returned(st)])
    /\ UNCHANGED <<stage, operands, node, shape_1, shape_2, new_shape, expr, code>>

NextWrapper == PrintFunctionDef \/ CallWrapper

\* The adapter of one function: generated, then called once.
SpecWrapper == InitWrapper /\ [][NextWrapper]_vars

\* ---------------------------------------------------------------- interface

Interface(name, functions) == [cls |-> "Interface", name |-> name, functions |-> functions]

\* flags_registry[(dtype, precision)]: the 4-bit flag of a type.
flags_registry(t) ==
    CASE t.dtype = "integer" /\ t.precision = 4 -> 5
      [] t.dtype = "real" /\ t.precision = 8 -> 11
      [] t.dtype = "integer" /\ t.precision = 8 -> 6
      [] t.dtype = "bool" -> 9

RECURSIVE type_key_NoShift(_, _)
type_key_NoShift(arguments, k) ==
    IF k = 0 THEN 0
    ELSE type_key_NoShift(arguments, k - 1) + flags_registry(arguments[k])

\* flags = flag_value: the key of the last parameter alone.
type_key_Overwrite(arguments, k) ==
    IF k = 0 THEN 0 ELSE flags_registry(arguments[k])

\* flags = (flags << 4) + flag_value over the first k arguments.
RECURSIVE type_key(_, _)
type_key(arguments, k) ==
    IF k = 0 THEN 0
    ELSE type_key(arguments, k - 1) * 16 + flags_registry(arguments[k])

RECURSIVE ShiftLeft(_, _)
ShiftLeft(value, bits) == IF bits = 0 THEN value ELSE ShiftLeft(value * 2, bits - 1)

\* _get_check_type_statement
get_check_type_statement(i, variable, compulsory) ==
    LET check == IF variable.rank > 0 THEN array_type_check(i, TypeOf(variable))
                 ELSE scalar_object_check(i, TypeOf(variable))
    IN  IF ~compulsory THEN [check EXCEPT !.flag = TRUE] ELSE check

\* types_dict[arg]: the set of (f_val, check, flag_value) of parameter i over
\* the functions of the interface.
types_dict(functions, i) ==
    {[var |-> TypeOf(functions[k].arguments[i]),
      check |-> get_check_type_statement(i, functions[k].arguments[i],
                                         functions[k].arguments[i].value = None),
      flag_value |-> flags_registry(functions[k].arguments[i])] : k \in DOMAIN functions}

\* list(types_dict[arg]) after sort(key = precision): the set is iterated in
\* some order and the sort keeps that order between equal precisions.
arg_type_check_lists(types) ==
    {l \in [1..Cardinality(types) -> types] :
        /\ \A p, q \in DOMAIN l : p # q => l[p] # l[q]
        /\ \A p, q \in DOMAIN l : p < q => l[p].var.precision <= l[q].var.precision}

\* The error of the type check of parameter i: its name and the types tried.
MustBe(i, types) ==
    [op |-> "PyErr_SetString", on |-> "PyExc_TypeError", i |-> i, val |-> "must be",
     sections |-> <<>>, types |-> types]

create_wrapper_check_NoReturn(n, order) ==
    <<Assign("check", 0, "LiteralInteger")>>
    \o [i \in 1..n |->
          If([e \in DOMAIN order[i] |->
                IfSection(order[i][e].check,
                          <<AugAssign("check", ShiftLeft(order[i][e].flag_value, (n - i) * 4))>>)]
             \o <<IfSection(LiteralTrue,
                            <<MustBe(i, [e \in DOMAIN order[i] |-> order[i][e].var])>>)>>)]
    \o <<Return("check")>>

\* _create_wrapper_check: the body of the type_check function; order[i] is
\* the sorted list of parameter i.
create_wrapper_check(n, order) ==
    <<Assign("check", 0, "LiteralInteger")>>
    \o [i \in 1..n |->
          If([e \in DOMAIN order[i] |->
                IfSection(order[i][e].check,
                          <<AugAssign("check", ShiftLeft(order[i][e].flag_value, (n - i) * 4))>>)]
             \o <<IfSection(LiteralTrue,
                            <<MustBe(i, [e \in DOMAIN order[i] |-> order[i][e].var]),
                              Return("0")>>)>>)]
    \o <<Return("check")>>

body_tmp_Reversed(flags) ==
    <<IfSection(Cond("not check", 0, NoType, FALSE), <<Return("Nil")>>)>>
    \o [k \in DOMAIN flags |->
            IfSection(Cond("check ==", flags[Len(flags) + 1 - k], NoType, FALSE),
                      <<Assign("result", Len(flags) + 1 - k, "mini_wrapper")>>)]
    \o <<IfSection(LiteralTrue,
                   <<PyErr_SetString("PyExc_TypeError", "Arguments combinations don't exist"),
                     Return("Nil")>>)>>

body_tmp_FirstHelper(flags) ==
    <<IfSection(Cond("not check", 0, NoType, FALSE), <<Return("Nil")>>)>>
    \o [k \in DOMAIN flags |->
            IfSection(Cond("check ==", flags[k], NoType, FALSE),
                      <<Assign("result", 1, "mini_wrapper")>>)]
    \o <<IfSection(LiteralTrue,
                   <<PyErr_SetString("PyExc_TypeError", "Arguments combinations don't exist"),
                     Return("Nil")>>)>>

\* The sections of the dispatch of _print_Interface: no key, then one section
\* per function in the order of the interface, then no matching function.
body_tmp(flags) ==
    <<IfSection(Cond("not check", 0, NoType, FALSE), <<Return("Nil")>>)>>
    \o [k \in DOMAIN flags |->
            IfSection(Cond("check ==", flags[k], NoType, FALSE),
                      <<Assign("result", k, "mini_wrapper")>>)]
    \o <<IfSection(LiteralTrue,
                   <<PyErr_SetString("PyExc_TypeError", "Arguments combinations don't exist"),
                     Return("Nil")>>)>>

\* _print_Interface: the per-function helpers, the type_check function and
\* the body of the wrapper.  The placeholders are those of the first
\* function; every default is assigned to the last of them.
print_Interface(interface, language, order) ==
    LET funcs == interface.functions
        n == Len(funcs[1].arguments)
        parse_args == [j \in 1..n |-> get_PyArgParseType(funcs[1].arguments[j])]
        flags == [k \in DOMAIN funcs |-> type_key(funcs[k].arguments, n)]
        default_assign ==
            Flatten([k \in DOMAIN funcs |->
                Flatten([j \in 1..n |->
                    IF funcs[k].arguments[j].value # None
                    THEN <<get_default_assign(n, parse_args[n], funcs[k].arguments[j])>>
                    ELSE <<>>])])
    IN  [mini_wrapper |-> [k \in DOMAIN funcs |-> adapter_body(funcs[k], k, FALSE, language)],
         type_check |-> create_wrapper_check(n, order),
         flags |-> flags,
         wrapper |-> <<PyArgKeywords>> \o default_assign
                     \o <<If(<<IfSection(not_PyArg_ParseTupleNode, <<Return("Nil")>>)>>)>>
                     \o <<Assign("check", 0, "type_check"), If(body_tmp(flags)), Return("result")>>]

\* ------------------------------------------------------ wrapped interfaces

InterfaceTypes == {Int32(0), Int64(0), Real64(0), Int32(1)}

InterfaceArguments ==
    {FunctionDefArgument("Variable", t.dtype, t.precision, t.rank, FALSE, None) :
        t \in InterfaceTypes}

\* Interfaces of two functions with the same number of parameters.
Interfaces ==
    UNION {{Interface("f", <<FunctionDef("f_1", a1, <<Real64(0)>>, FALSE),
                             FunctionDef("f_2", a2, <<Real64(0)>>, FALSE)>>) :
                a1 \in [1..n -> InterfaceArguments], a2 \in [1..n -> InterfaceArguments]} :
           n \in 1..MaxArgs}

\* The objects a caller can give for parameter j: one of each type some
\* function declares for it, and one of a type that none declares; an
\* argument with a default can be left out.
InterfaceObjects(functions, j) ==
    {PyObject({TypeOf(functions[k].arguments[j])}) : k \in DOMAIN functions}
        \cup {PyObject({})}
        \cup (IF functions[1].arguments[j].value # None THEN {Absent} ELSE {})

\* The calls of the dispatcher of an interface; a call the parser refuses is
\* taken once.
InterfaceCalls(functions) ==
    LET n == Len(functions[1].arguments)
    IN  {c \in [parse_ok : BOOLEAN,
                objs : {o \in [1..n -> UNION {InterfaceObjects(functions, j) : j \in 1..n}] :
                            \A j \in 1..n : o[j] \in InterfaceObjects(functions, j)}] :
            ~c.parse_ok => \A j \in 1..n : c.objs[j] = PyObject({})}

\* The orders in which one run of _create_wrapper_check can meet the types
\* of the parameters.
Orders(functions) ==
    LET n == Len(functions[1].arguments)
    IN  {o \in [1..n -> UNION {arg_type_check_lists(types_dict(functions, i)) : i \in 1..n}] :
            \A i \in 1..n : o[i] \in arg_type_check_lists(types_dict(functions, i))}

\* The value of a placeholder declared without an initial value, as the
\* parser finds it: null, None or any other address. It is read only when
\* an argument can be left out.
Uninitialised(functions) ==
    IF \E k \in DOMAIN functions :
            \E j \in DOMAIN functions[k].arguments : functions[k].arguments[j].value # None
    THEN {"unset", "Nil", "Py_None"}
    ELSE {"unset"}

\* Interfaces whose last parameters have a default value: the functions of
\* an interface come from one definition, so the same parameters have one.
DefaultedArguments(n, valued, types) ==
    [j \in 1..n |-> FunctionDefArgument("Variable", types[j].dtype, types[j].precision,
                                       types[j].rank, FALSE,
                                       IF j > n - valued THEN Some("default") ELSE None)]

DefaultedTypes == {Int32(0), Real64(0)}

InterfacesWithDefaults ==
    UNION {{Interface("f", <<FunctionDef("f_1", DefaultedArguments(n, valued, t1), <<Real64(0)>>, FALSE),
                             FunctionDef("f_2", DefaultedArguments(n, valued, t2), <<Real64(0)>>, FALSE)>>) :
                t1 \in [1..n -> DefaultedTypes], t2 \in [1..n -> DefaultedTypes]} :
           n \in 1..MaxArgs, valued \in 1..MaxArgs}

InitInterfaceDefaults ==
    /\ stage = "interface"
    /\ operands = <<>>
    /\ node = SyntacticLeaf
    /\ shape_1 = <<>>
    /\ shape_2 = <<>>
    /\ new_shape = None
    /\ expr \in {[node |-> i, target_language |-> "c"] : i \in InterfacesWithDefaults}
    /\ code = None
    /\ run = None

InitInterface ==
    /\ stage = "interface"
    /\ operands = <<>>
    /\ node = SyntacticLeaf
    /\ shape_1 = <<>>
    /\ shape_2 = <<>>
    /\ new_shape = None
    /\ expr \in {[node |-> i, target_language |-> "c"] : i \in Interfaces}
    /\ code = None
    /\ run = None

\* CWrapperCodePrinter._print_Interface(expr)
PrintInterface ==
    /\ stage = "interface"
    /\ code = None
    /\ \E order \in Orders(expr.node.functions) :
            code' = Some(print_Interface(expr.node, expr.target_language, order))
    /\ UNCHANGED <<stage, operands, node, shape_1, shape_2, new_shape, expr, run>>

\* The generated dispatcher is called from Python.
CallInterface ==
    /\ stage = "interface"
    /\ code # None
    /\ run = None
    /\ \E call \in InterfaceCalls(expr.node.functions), junk \in Uninitialised(expr.node.functions) :
         \E env \in {[parse_ok |-> call.parse_ok, objs |-> call.objs, code |-> code[1]]} :
           \E st \in {Exec(code[1].wrapper, 1,
                           [StartOfCall(Len(expr.node.functions[1].arguments)) EXCEPT
                                !.collect = [j \in DOMAIN @ |-> junk]], env)} :
              run' = Some([call |-> call, events |-> st.events, check |-> st.check,
                           native |-> st.native, returns |-> Returned(st)])
    /\ UNCHANGED <<stage, operands, node, shape_1, shape_2, new_shape, expr, code>>

NextInterface == PrintInterface \/ CallInterface

\* The dispatcher of one interface: generated, then called once.
SpecInterface == InitInterface /\ [][NextInterface]_vars

\* The dispatcher of one interface with default values.
SpecInterfaceDefaults == InitInterfaceDefaults /\ [][NextInterface]_vars

\* ------------------------------------------------------ dispatch integer

\* Most parameters of an interface whose keys are compared.
MaxKeyArgs == 3

\* The bits of the integer that holds a key: small widths stand for the
\* width of the C int, so that 4 * n can exceed it within MaxKeyArgs.
KeyWidths == {4, 8, 12}

KeyTypes == {Int32(0), Int64(0), Real64(0)}

\* A key held in check_var, an integer of `width` bits.
dispatch_integer(key, width) == key % (2 ^ width)

InitKey ==
    /\ stage = "key"
    /\ operands = <<>>
    /\ node = SyntacticLeaf
    /\ shape_1 = <<>>
    /\ shape_2 = <<>>
    /\ new_shape = None
    /\ expr \in UNION {[arguments_1 : [1..n -> KeyTypes], arguments_2 : [1..n -> KeyTypes],
                         width : KeyWidths] : n \in 1..MaxKeyArgs}
    /\ code = None
    /\ run = None

\* The keys of two functions of an interface, as the dispatcher compares them.
FoldKeys ==
    /\ stage = "key"
    /\ code = None
    /\ code' = Some([flags_1 |-> dispatch_integer(type_key(expr.arguments_1, Len(expr.arguments_1)),
                                                  expr.width),
                     flags_2 |-> dispatch_integer(type_key(expr.arguments_2, Len(expr.arguments_2)),
                                                  expr.width)])
    /\ UNCHANGED <<stage, operands, node, shape_1, shape_2, new_shape, expr, run>>

\* Keys of type tuples in a dispatch integer of a given width.
SpecKey == InitKey /\ [][FoldKeys]_vars

\* ----------------------------------------------------------- global names

\* A name is the sequence of the words that "_" joins: f_wrapper is
\* <<"f", "wrapper">>, so that a requested name can be the name of a function.

\* Most functions of a module.
MaxFuncs == 2

\* The counters create_incremented_string writes after the prefix.
Counters == <<"0001", "0002", "0003", "0004", "0005", "0006">>

\* create_incremented_string(forbidden_exprs, prefix): the prefix followed
\* by the first counter that gives a name not in the set.
create_incremented_string(forbidden_exprs, prefix) ==
    LET free == {c \in DOMAIN Counters : prefix \o <<Counters[c]>> \notin forbidden_exprs}
    IN  prefix \o <<Counters[CHOOSE c \in free : \A d \in free : c <= d]>>

\* get_new_name that gives the requested name whatever the set holds.
get_new_name_AsRequested(used_names, requested_name) ==
    [name |-> requested_name, used_names |-> used_names \cup {requested_name}]

\* get_new_name(used_names, requested_name): the name and the set after it.
get_new_name(used_names, requested_name) ==
    IF requested_name \notin used_names
    THEN [name |-> requested_name, used_names |-> used_names \cup {requested_name}]
    ELSE CHOOSE r \in {[name |-> incremented_name, used_names |-> used_names \cup {incremented_name}] :
                            incremented_name \in {create_incremented_string(used_names, requested_name)}} : TRUE

\* The names of the local variables an adapter asks for before it names its
\* helpers: get_new_PyObject("args" / "kwargs" / "self" / "result"), kwlist
\* and check.
LocalNames == <<<<"args">>, <<"kwargs">>, <<"self">>, <<"result">>, <<"kwlist">>, <<"check">>>>

RECURSIVE get_new_names(_, _, _)
get_new_names(used_names, requested_names, k) ==
    IF k = 0 THEN used_names
    ELSE get_new_name(get_new_names(used_names, requested_names, k - 1), requested_names[k]).used_names

\* One name given in a generation: what was asked for, the names the
\* request had to avoid, and the name it got.
Named(kind, requested_name, avoided, name) ==
    [kind |-> kind, requested |-> requested_name, avoided |-> avoided, name |-> name]

\* _get_wrapper_name(used_names, func), on the state of the printer.
get_wrapper_name(printer, used_names, func_name) ==
    LET avoided == used_names \cup printer.global_names
        wrapper_name == get_new_name(avoided, func_name \o <<"wrapper">>).name
    IN  [printer EXCEPT
            !.function_wrapper_names = Append(@, [key |-> func_name, value |-> wrapper_name]),
            !.global_names = @ \cup {wrapper_name},
            !.names = Append(@, Named("wrapper", func_name \o <<"wrapper">>, avoided, wrapper_name))]

\* The loop of _print_Interface over the functions: one helper name each.
RECURSIVE mini_wrapper_names(_, _, _, _)
mini_wrapper_names(printer, used_names, functions, k) ==
    IF k = 0 THEN printer
    ELSE CHOOSE r \in
            {[before EXCEPT
                !.global_names = @ \cup {get_new_name(used_names \cup before.global_names,
                                                      functions[k] \o <<"mini", "wrapper">>).name},
                !.names = Append(@, Named("mini_wrapper", functions[k] \o <<"mini", "wrapper">>,
                                          used_names \cup before.global_names,
                                          get_new_name(used_names \cup before.global_names,
                                                       functions[k] \o <<"mini", "wrapper">>).name))] :
                before \in {mini_wrapper_names(printer, used_names, functions, k - 1)}} : TRUE

\* The name _create_wrapper_check gives to the type-check helper.
check_func_name(printer, used_names) ==
    LET avoided == used_names \cup printer.global_names
        name == get_new_name(avoided, <<"type", "check">>).name
    IN  [printer EXCEPT
            !.global_names = @ \cup {name},
            !.names = Append(@, Named("type_check", <<"type", "check">>, avoided, name))]

\* The names _print_Interface gives: the entry point, the local variables,
\* one helper per function and the type-check helper.
print_Interface_names(printer, interface) ==
    LET used_names == {interface.functions[k] : k \in DOMAIN interface.functions}
        named == get_wrapper_name(printer, used_names, interface.name)
        locals == get_new_names(used_names, LocalNames, Len(LocalNames))
        helpers == mini_wrapper_names(named, locals, interface.functions, Len(interface.functions))
    IN  check_func_name(helpers, locals)

\* The names _print_FunctionDef gives: the entry point.
print_FunctionDef_names(printer, func_name, arguments) ==
    get_wrapper_name(printer, arguments \cup {func_name}, func_name)

\* The method table and the module definition of _print_Module.
print_Module_names(printer, module_name) ==
    LET method_def == get_new_name(printer.global_names, module_name \o <<"methods">>)
        module_def == get_new_name(method_def.used_names, module_name \o <<"module">>)
    IN  [printer EXCEPT
            !.global_names = module_def.used_names,
            !.names = @ \o <<Named("methods", module_name \o <<"methods">>,
                                    printer.global_names, method_def.name),
                              Named("module", module_name \o <<"module">>,
                                    method_def.used_names, module_def.name)>>,
            !.tables = TRUE]

\* ---------------------------------------------------------------- modules

FunctionNames ==
    {<<"f">>, <<"g">>, <<"f", "mini">>, <<"f", "wrapper">>, <<"f", "mini", "wrapper">>,
     <<"type", "check">>, <<"m", "methods">>, <<"m", "module">>, <<"f", "wrapper", "0001">>}

ModuleNames == {<<"m">>, <<"f">>}

ArgumentNames == {{<<"x">>}, {<<"f", "wrapper">>, <<"type", "check">>}}

InterfaceNames == {<<<<"f">>, <<"g">>>>, <<<<"f", "mini">>, <<"f">>>>}

\* The interfaces a module can have over its first functions.
InterfacesOver(funcs) ==
    {<<>>}
    \cup {<<[name |-> n[1], functions |-> <<funcs[1]>>]>> : n \in InterfaceNames}
    \cup (IF Len(funcs) < 2 THEN {}
          ELSE {<<[name |-> n[1], functions |-> <<funcs[1], funcs[2]>>]>> : n \in InterfaceNames}
               \cup {<<[name |-> n[1], functions |-> <<funcs[1]>>],
                       [name |-> n[2], functions |-> <<funcs[2]>>]>> : n \in InterfaceNames})

Modules ==
    UNION {UNION {{[name |-> m, funcs |-> funcs, interfaces |-> i, arguments |-> a] :
                        m \in ModuleNames, i \in InterfacesOver(funcs), a \in ArgumentNames} :
                  funcs \in {f \in [1..n -> FunctionNames] :
                                \A k, l \in 1..n : k # l => f[k] # f[l]}} :
           n \in 1..MaxFuncs}

\* The printer after construction: no global name, no wrapper name.
InitModule ==
    /\ stage = "module"
    /\ operands = <<>>
    /\ node = SyntacticLeaf
    /\ shape_1 = <<>>
    /\ shape_2 = <<>>
    /\ new_shape = None
    /\ expr \in Modules
    /\ code = None
    /\ run = None

\* funcs = [*expr.interfaces, *(f for f in expr.funcs if f.name not in
\* interface_funcs)]
module_funcs(module) ==
    LET interface_funcs ==
            UNION {{module.interfaces[i].functions[j] : j \in DOMAIN module.interfaces[i].functions} :
                   i \in DOMAIN module.interfaces}
        others == SelectSeq(module.funcs, LAMBDA f : f \notin interface_funcs)
    IN  [k \in DOMAIN module.interfaces |->
            [cls |-> "Interface", name |-> module.interfaces[k].name,
             functions |-> module.interfaces[k].functions]]
        \o [k \in DOMAIN others |-> [cls |-> "FunctionDef", name |-> others[k], functions |-> <<>>]]

\* _print_Module, up to the loop over the adapters: the names of the
\* functions are the global names, the interfaces come first.
BeginModule ==
    /\ stage = "module"
    /\ code = None
    /\ code' = Some([global_names |-> {expr.funcs[k] : k \in DOMAIN expr.funcs},
                     function_wrapper_names |-> <<>>,
                     names |-> <<>>,
                     funcs |-> module_funcs(expr),
                     tables |-> FALSE])
    /\ UNCHANGED <<stage, operands, node, shape_1, shape_2, new_shape, expr, run>>

\* self._print(f) of the next adapter, an interface.
NameInterface ==
    /\ stage = "module"
    /\ code # None
    /\ code[1].funcs # <<>>
    /\ Head(code[1].funcs).cls = "Interface"
    /\ \E printer \in {print_Interface_names(code[1], Head(code[1].funcs))} :
            code' = Some([printer EXCEPT !.funcs = Tail(@)])
    /\ UNCHANGED <<stage, operands, node, shape_1, shape_2, new_shape, expr, run>>

\* self._print(f) of the next adapter, a function.
NameFunctionDef ==
    /\ stage = "module"
    /\ code # None
    /\ code[1].funcs # <<>>
    /\ Head(code[1].funcs).cls = "FunctionDef"
    /\ \E printer \in {print_FunctionDef_names(code[1], Head(code[1].funcs).name, expr.arguments)} :
            code' = Some([printer EXCEPT !.funcs = Tail(@)])
    /\ UNCHANGED <<stage, operands, node, shape_1, shape_2, new_shape, expr, run>>

\* _print_Module after the loop: the method table and the module definition.
NameTables ==
    /\ stage = "module"
    /\ code # None
    /\ code[1].funcs = <<>>
    /\ ~code[1].tables
    /\ \E printer \in {print_Module_names(code[1], expr.name)} : code' = Some(printer)
    /\ UNCHANGED <<stage, operands, node, shape_1, shape_2, new_shape, expr, run>>

NextModule == BeginModule \/ NameInterface \/ NameFunctionDef \/ NameTables

\* The names of one generation of a module.
SpecModule == InitModule /\ [][NextModule]_vars

\* ------------------------------------------------------- numpy registries

\* numpy_num_to_type: the NPY_ type of a numpy type number.
numpy_num_to_type(num) ==
    CASE num = 0 -> "NPY_BOOL"
      [] num = 1 -> "NPY_BYTE"
      [] num = 2 -> "NPY_UBYTE"
      [] num = 3 -> "NPY_SHORT"
      [] num = 4 -> "NPY_USHORT"
      [] num = 5 -> "NPY_INT32"
      [] num = 6 -> "NPY_UINT"
      [] num = 7 -> "NPY_LONG"
      [] num = 8 -> "NPY_ULONG"
      [] num = 9 -> "NPY_INT64"
      [] num = 10 -> "NPY_ULONGLONG"
      [] num = 11 -> "NPY_FLOAT"
      [] num = 12 -> "NPY_DOUBLE"
      [] num = 13 -> "NPY_LONGDOUBLE"
      [] num = 14 -> "NPY_CFLOAT"
      [] num = 15 -> "NPY_CDOUBLE"
      [] num = 16 -> "NPY_CLONGDOUBLE"

\* np.dtype(np.int8 / int16 / int32 / int64).num: the C long is the 64-bit
\* integer where it has 8 bytes and the 32-bit integer where it has 4.
np_dtype_num(platform, precision) ==
    CASE precision = 1 -> 1
      [] precision = 2 -> 3
      [] precision = 4 -> IF platform = "windows" THEN 7 ELSE 5
      [] precision = 8 -> IF platform = "windows" THEN 9 ELSE 7

\* numpy_int_type_precision_map
numpy_int_type_precision_map(platform, precision) == np_dtype_num(platform, precision)

\* numpy_dtype_registry[(dtype, precision)], None for a missing key.
numpy_dtype_registry(platform, dtype, precision) ==
    CASE dtype = "bool" /\ precision = 4 -> Some("NPY_BOOL")
      [] dtype = "int" /\ precision \in {1, 2, 4, 8} ->
            Some(numpy_num_to_type(numpy_int_type_precision_map(platform, precision)))
      [] dtype = "int" /\ precision = 16 -> Some("NPY_INT64")
      [] dtype = "real" /\ precision = 4 -> Some("NPY_FLOAT")
      [] dtype = "real" /\ precision = 8 -> Some("NPY_DOUBLE")
      [] dtype = "real" /\ precision = 16 -> Some("NPY_LONGDOUBLE")
      [] dtype = "complex" /\ precision = 4 -> Some("NPY_CFLOAT")
      [] dtype = "complex" /\ precision = 8 -> Some("NPY_CDOUBLE")
      [] dtype = "complex" /\ precision = 16 -> Some("NPY_CLONGDOUBLE")
      [] OTHER -> None

\* numpy_type_check_registry[(dtype, precision)], None for a missing key.
numpy_type_check_registry(dtype, precision) ==
    CASE dtype = "int" /\ precision = 4 -> Some("Int32")
      [] dtype = "int" /\ precision = 8 -> Some("Int64")
      [] dtype = "int" /\ precision = 2 -> Some("Int16")
      [] dtype = "int" /\ precision = 1 -> Some("Int8")
      [] dtype = "real" /\ precision = 8 -> Some("Float64")
      [] dtype = "real" /\ precision = 4 -> Some("Float32")
      [] dtype = "complex" /\ precision = 4 -> Some("Complex64")
      [] dtype = "complex" /\ precision = 8 -> Some("Complex128")
      [] dtype = "bool" /\ precision = 4 -> Some("Bool")
      [] OTHER -> None

\* The bytes of a value of a library type (of one component of a complex).
WidthOf(platform, type) ==
    CASE type \in {"NPY_BOOL", "NPY_BYTE", "NPY_UBYTE", "Bool", "Int8"} -> 1
      [] type \in {"NPY_SHORT", "NPY_USHORT", "Int16"} -> 2
      [] type \in {"NPY_INT32", "NPY_UINT", "NPY_FLOAT", "NPY_CFLOAT",
                   "Int32", "Float32", "Complex64"} -> 4
      [] type \in {"NPY_LONG", "NPY_ULONG"} -> IF platform = "windows" THEN 4 ELSE 8
      [] type \in {"NPY_INT64", "NPY_ULONGLONG", "NPY_DOUBLE", "NPY_CDOUBLE",
                   "Int64", "Float64", "Complex128"} -> 8
      [] type \in {"NPY_LONGDOUBLE", "NPY_CLONGDOUBLE"} ->
            IF platform = "windows" THEN 8 ELSE 16

RegistryKeys ==
    [dtype : {"bool", "int", "real", "complex"}, precision : {1, 2, 4, 8, 16},
     platform : {"linux", "windows"}]

InitRegistry ==
    /\ stage = "registry"
    /\ operands = <<>>
    /\ node = SyntacticLeaf
    /\ shape_1 = <<>>
    /\ shape_2 = <<>>
    /\ new_shape = None
    /\ expr \in RegistryKeys
    /\ code = None
    /\ run = None

\* The two registries are read for a (dtype, precision).
LookupRegistries ==
    /\ stage = "registry"
    /\ code = None
    /\ code' = Some([numpy_dtype |-> numpy_dtype_registry(expr.platform, expr.dtype, expr.precision),
                     type_check |-> numpy_type_check_registry(expr.dtype, expr.precision)])
    /\ UNCHANGED <<stage, operands, node, shape_1, shape_2, new_shape, expr, run>>

\* PyArray_TYPE of an array is compared with the entry of the dtype table.
CompareArrayType ==
    /\ stage = "registry"
    /\ code # None
    /\ run = None
    /\ \E num \in 0..16 :
            run' = Some([num |-> num,
                         accepted |-> code[1].numpy_dtype = Some(numpy_num_to_type(num))])
    /\ UNCHANGED <<stage, operands, node, shape_1, shape_2, new_shape, expr, code>>

NextRegistry == LookupRegistries \/ CompareArrayType

\* The registries of numpy_wrapper.py, read for one key.
SpecRegistry == InitRegistry /\ [][NextRegistry]_vars

\* =================================================================== claims

\* ---- helpers of the formulas below

IsFatal(error) ==
    error \in {"fatal: None", "fatal: String", "fatal: types", "fatal: rank",
               "fatal: shape", "fatal: order"}

Built(classes) == operands # <<>> /\ node.cls \in classes

Typed(classes) == stage = "semantic" /\ Built(classes) /\ node.error = ""

NoStringOperand == \A i \in DOMAIN operands : operands[i].dtype # "string"

ShapeKnown(a) ==
    a.rank # None /\ \A j \in DOMAIN a.shape[1] : a.shape[1][j] # NoneExtent

Max(a, b) == IF a > b THEN a ELSE b

Shape(ks) == [i \in DOMAIN ks |-> LiteralInteger(ks[i])]

\* Extent number i (1..n) of shape s once right-aligned in n positions, as an
\* integer; positions left of s hold 1.
AlignedInt(s, n, i) == IF i <= n - Len(s) THEN 1 ELSE s[i - (n - Len(s))].k

AllLiteral(s) == \A i \in DOMAIN s : s[i].e = "LiteralInteger"

\* The bucket of a numeric kind: integer (and bool) < real < complex.
Bucket(dtype) ==
    CASE dtype \in {"bool", "integer"} -> 1
      [] dtype = "real" -> 2
      [] dtype = "complex" -> 3

BucketKind(b) == CASE b = 1 -> "integer" [] b = 2 -> "real" [] b = 3 -> "complex"

TopBucket == Max(Bucket(operands[1].dtype), Bucket(operands[2].dtype))

TopPrecision ==
    CHOOSE m \in {operands[i].precision[1] :
                    i \in {j \in 1..2 : Bucket(operands[j].dtype) = TopBucket}} :
        \A i \in 1..2 : Bucket(operands[i].dtype) = TopBucket => operands[i].precision[1] <= m

\* ---- C1

\* C1 (as claimed): a binary arithmetic node over two non-string operands of
\* known rank and fully known shape has the shape broadcast(first operand's
\* shape, second operand's shape) and that shape's length as rank (it is not
\* built when the two shapes do not broadcast); when an operand's rank is
\* unknown the node's rank and shape are unknown.
C1_ShapeIsBroadcastOfBothOperands ==
    (stage = "semantic" /\ Built(ArithmeticOperators) /\ NoStringOperand) =>
        IF operands[1].rank = None \/ operands[2].rank = None
        THEN node.error = "" /\ node.rank = None /\ node.shape = None
        ELSE IF ShapeKnown(operands[1]) /\ ShapeKnown(operands[2])
        THEN LET both == broadcast(operands[1].shape[1], operands[2].shape[1])
             IN  IF both.error # "" THEN node.error # ""
                 ELSE /\ node.error = ""
                      /\ node.shape = Some(both.shape)
                      /\ node.rank = Some(Max(operands[1].rank[1], operands[2].rank[1]))
        ELSE TRUE

\* ---- C2

\* C2: broadcast of two shapes of integer literals right-aligns the shorter
\* one, padding it with 1; the result has the longer length, each extent is
\* the common value of the aligned pair or the other extent when one is 1;
\* a pair of different extents, neither 1, makes the call fail with an error
\* naming the two shapes passed.  (3,1) with (1,4) gives (3,4), (5,) with
\* (5,) gives (5,) -- here (4,) with (4,) -- and (3,) with (4,) fails.
C2_BroadcastOfLiteralShapes ==
    (new_shape # None /\ AllLiteral(shape_1) /\ AllLiteral(shape_2)) =>
        LET r == new_shape[1]
            n == Max(Len(shape_1), Len(shape_2))
            x(i) == AlignedInt(shape_1, n, i)
            y(i) == AlignedInt(shape_2, n, i)
        IN  /\ IF \E i \in 1..n : x(i) # y(i) /\ x(i) # 1 /\ y(i) # 1
               THEN r.error = "PyccelSemanticError" /\ r.msg = <<shape_1, shape_2>>
               ELSE /\ r.error = ""
                    /\ Len(r.shape) = n
                    /\ \A i \in 1..n :
                         r.shape[i] = LiteralInteger(IF x(i) = 1 THEN y(i) ELSE x(i))
            /\ (shape_1 = Shape(<<3, 1>>) /\ shape_2 = Shape(<<1, 4>>))
                    => r = [error |-> "", shape |-> Shape(<<3, 4>>)]
            /\ (shape_1 = Shape(<<4>>) /\ shape_2 = Shape(<<4>>))
                    => r = [error |-> "", shape |-> Shape(<<4>>)]
            /\ (shape_1 = Shape(<<3>>) /\ shape_2 = Shape(<<4>>)) => r.error # ""

\* (3,1) and (1,4) have been broadcast to (3,4).
C2_Witness ==
    /\ shape_1 = Shape(<<3, 1>>)
    /\ shape_2 = Shape(<<1, 4>>)
    /\ new_shape = Some([error |-> "", shape |-> Shape(<<3, 4>>)])

\* ---- C3

\* The aligned pairs of a successful broadcast that are not provably equal,
\* with neither extent provably 1 and exactly one of them constant: the
\* extent kept is keep(e1, e2).
OneConstantPairs(P(_, _, _)) ==
    (new_shape # None /\ new_shape[1].error = "") =>
        LET n  == Max(Len(shape_1), Len(shape_2))
            s1 == PadShape(shape_1, n)
            s2 == PadShape(shape_2, n)
        IN  \A i \in 1..n :
              LET sy_e1 == pyccel_to_sympy(s1[i])
                  sy_e2 == pyccel_to_sympy(s2[i])
              IN  (/\ sy_e1 # sy_e2
                   /\ sy_e1 # sy_one
                   /\ sy_e2 # sy_one
                   /\ is_constant(sy_e1) # is_constant(sy_e2))
                  => P(s1[i], s2[i], new_shape[1].shape[i])

KeptSymbolic(e1, e2, kept) == kept = IF is_constant(pyccel_to_sympy(e1)) THEN e2 ELSE e1

KeptConstant(e1, e2, kept) == kept = IF is_constant(pyccel_to_sympy(e1)) THEN e1 ELSE e2

\* C3 (as claimed): of such a pair broadcast keeps the non-constant extent.
C3_KeepsSymbolicExtent == OneConstantPairs(KeptSymbolic)

\* C3 (amended): of an aligned pair that is not provably equal, with neither
\* extent provably 1 and exactly one of them a compile-time constant,
\* broadcast keeps the constant extent, whichever side it is on.
C3_KeepsConstantExtent == OneConstantPairs(KeptConstant)

\* (n,) and (3,) have been broadcast, to (3,).
C3_Witness ==
    /\ shape_1 = <<Variable_("n")>>
    /\ shape_2 = Shape(<<3>>)
    /\ new_shape = Some([error |-> "", shape |-> Shape(<<3>>)])

\* ---- C4

\* C4: a binary arithmetic node other than a division, with no string
\* operand, has the kind of the highest bucket among its operands
\* (integer < real < complex, bool counting as integer, so two bools give
\* integer) and the largest precision among the operands of that bucket;
\* add(int32, real64) is (real, 64-bit), floor_div(int32, int32) is
\* (integer, 32-bit).  Precisions are in bytes.
C4_HighestBucketAndItsPrecision ==
    (Typed(ArithmeticOperators \ {"PyccelDiv"}) /\ NoStringOperand) =>
        /\ node.dtype = BucketKind(TopBucket)
        /\ node.precision = Some(TopPrecision)
        /\ (operands[1].dtype = "bool" /\ operands[2].dtype = "bool")
                => node.dtype = "integer"
        /\ (/\ node.cls = "PyccelAdd"
            /\ operands[1].dtype = "integer" /\ operands[1].precision = Some(4)
            /\ operands[2].dtype = "real" /\ operands[2].precision = Some(8))
                => (node.dtype = "real" /\ node.precision = Some(8))
        /\ (/\ node.cls = "PyccelFloorDiv"
            /\ operands[1].dtype = "integer" /\ operands[1].precision = Some(4)
            /\ operands[2].dtype = "integer" /\ operands[2].precision = Some(4))
                => (node.dtype = "integer" /\ node.precision = Some(4))

\* A 64-bit integer times a 32-bit real has been typed (real, 32-bit): the
\* precision of the wider operand, which is in the lower bucket, is left out.
C4_Witness ==
    /\ Typed({"PyccelMul"})
    /\ operands[1].dtype = "integer" /\ operands[1].precision = Some(8)
    /\ operands[2].dtype = "real" /\ operands[2].precision = Some(4)
    /\ node.dtype = "real" /\ node.precision = Some(4)

\* ---- C5

\* C5: the division of two operands of the integer bucket (integer or bool,
\* any precision) is (real, default real precision); a division with a real
\* or complex operand follows the rule of the other operators; and no other
\* arithmetic operator gives a kind that is not its highest operand bucket.
C5_IntegerDivisionIsDefaultReal ==
    (Typed(ArithmeticOperators) /\ NoStringOperand) =>
        /\ (node.cls = "PyccelDiv" /\ TopBucket = 1)
                => (node.dtype = "real" /\ node.precision = Some(default_precision_real))
        /\ (node.cls = "PyccelDiv" /\ TopBucket > 1)
                => (node.dtype = BucketKind(TopBucket) /\ node.precision = Some(TopPrecision))
        /\ node.dtype # BucketKind(TopBucket) => node.cls = "PyccelDiv"

\* A 32-bit integer divided by a bool has been typed (real, 64-bit).
C5_Witness ==
    /\ Typed({"PyccelDiv"})
    /\ operands[1].dtype = "integer" /\ operands[1].precision = Some(4)
    /\ operands[2].dtype = "bool"
    /\ node.dtype = "real" /\ node.precision = Some(8)

\* ---- C6

IsBoolNode ==
    node.dtype = "bool" /\ node.precision = Some(default_precision_bool)

IsScalarNode == node.rank = Some(0) /\ node.shape = Some(<<>>)

\* C6 (as claimed): every comparison, and/or and is/is-not node is
\* (bool, default bool precision) of rank 0 and empty shape, whatever its
\* operands.
C6_ComparisonAndBooleanAreScalarBool ==
    Typed(ComparisonOperators \cup BooleanOperators) => (IsBoolNode /\ IsScalarNode)

\* C6 (amended): every comparison, and/or and is/is-not node is
\* (bool, default bool precision); every and/or and is/is-not node has rank 0
\* and empty shape whatever its operands; a comparison node has rank 0 and
\* empty shape when both operands have rank 0, and has rank r when both
\* operands have rank r > 0.
C6_BoolAlwaysScalarForBooleanOperators ==
    /\ Typed(ComparisonOperators \cup BooleanOperators) => IsBoolNode
    /\ Typed(BooleanOperators) => IsScalarNode
    /\ Typed(ComparisonOperators) =>
         /\ (operands[1].rank = Some(0) /\ operands[2].rank = Some(0)) => IsScalarNode
         /\ (operands[1].rank # None /\ operands[1].rank = operands[2].rank)
                => node.rank = operands[1].rank

\* Two real arrays of rank 2 have been compared: the node is bool, of rank 2.
C6_Witness ==
    /\ Typed({"PyccelLt"})
    /\ operands[1].dtype = "real" /\ operands[1].rank = Some(2)
    /\ operands[2].dtype = "real" /\ operands[2].rank = Some(2)
    /\ IsBoolNode
    /\ node.rank = Some(2)

\* ---- C7

\* Operand i of the node built last was put in a parenthesis node by the
\* construction / was left as it is.
Wrapped(i) ==
    /\ node.args[i].cls = "PyccelAssociativeParenthesis"
    /\ node.args[i].args = <<operands[i]>>
    /\ node.args[i] # operands[i]

Unwrapped(i) == node.args[i] = operands[i]

PrecedenceRule(i) ==
    LET q == precedence_of(operands[i])
        p == ClassPrecedence[node.cls]
    IN  q < p \/ (q = p /\ i # 1)

UnaryInUnary(i) == node.cls \in UnaryPlusMinus /\ operands[i].cls \in UnaryPlusMinus

AndOrMixed(i) ==
    \/ node.cls = "PyccelAnd" /\ operands[i].cls = "PyccelOr"
    \/ node.cls = "PyccelOr" /\ operands[i].cls = "PyccelAnd"

UnaryInArithmetic(i) ==
    node.cls \in ArithmeticOperators /\ operands[i].cls \in UnaryPlusMinus

OperatorBuilt ==
    Built((DOMAIN ClassPrecedence) \ {"PyccelAssociativeParenthesis"})

\* C7 (as claimed): operand i, of precedence q (17 without one), of an
\* operator of precedence p is wrapped in a parenthesis node if and only if
\* q < p or (q = p and i is not the first position), or one of the two
\* clarity rules applies (unary +/- in unary +/-, and/or mixed); an operand of
\* higher precedence than its parent is left unwrapped.
C7_WrappedIffPrecedenceOrTwoClarityRules ==
    OperatorBuilt =>
        /\ Len(node.args) = Len(operands)
        /\ \A i \in DOMAIN operands :
             /\ (PrecedenceRule(i) \/ UnaryInUnary(i) \/ AndOrMixed(i)) => Wrapped(i)
             /\ ~(PrecedenceRule(i) \/ UnaryInUnary(i) \/ AndOrMixed(i)) => Unwrapped(i)
             /\ precedence_of(operands[i]) > ClassPrecedence[node.cls]
                  => (Unwrapped(i) \/ UnaryInUnary(i) \/ AndOrMixed(i))

\* C7 (amended): operand i, of precedence q (17 without one), of an operator
\* of precedence p is wrapped in a parenthesis node if and only if q < p or
\* (q = p and i is not the first position), or one of three clarity rules
\* applies: unary +/- in unary +/-, unary +/- as operand of a binary
\* arithmetic operator, and/or mixed.  mul(a, add(b,c)) wraps the add,
\* add(add(a,b), c) leaves the first add, add(c, add(a,b)) wraps the second;
\* an operand of higher precedence than its parent is left unwrapped unless
\* a clarity rule applies.
C7_WrappedIffPrecedenceOrThreeClarityRules ==
    OperatorBuilt =>
        /\ Len(node.args) = Len(operands)
        /\ \A i \in DOMAIN operands :
             LET rule == PrecedenceRule(i) \/ UnaryInUnary(i) \/ AndOrMixed(i)
                            \/ UnaryInArithmetic(i)
             IN  /\ rule => Wrapped(i)
                 /\ ~rule => Unwrapped(i)
        /\ (node.cls = "PyccelMul" /\ operands[2].cls = "PyccelAdd") => Wrapped(2)
        /\ (node.cls = "PyccelAdd" /\ operands[1].cls = "PyccelAdd") => Unwrapped(1)
        /\ (node.cls = "PyccelAdd" /\ operands[2].cls = "PyccelAdd") => Wrapped(2)

\* add(c, add(a,b)) has been built: the second operand, of equal precedence,
\* is wrapped and the first, an atom, is not.
C7_Witness ==
    /\ stage = "syntactic"
    /\ Built({"PyccelAdd"})
    /\ operands[1] = SyntacticLeaf
    /\ operands[2].cls = "PyccelAdd"
    /\ Wrapped(2)
    /\ Unwrapped(1)

\* ---- C8

\* C8: a unary +/- that is an operand of a unary +/- is wrapped; an and that
\* is an operand of an or is wrapped, and an or of an and; every operand is
\* either left as it is or wrapped once (the parenthesis node put in holds
\* the operand itself), and an operand that is a parenthesis node is left as
\* it is.
C8_ClarityRulesAndSingleWrap ==
    OperatorBuilt =>
        \A i \in DOMAIN operands :
            /\ (UnaryInUnary(i) \/ AndOrMixed(i)) => Wrapped(i)
            /\ Wrapped(i) \/ Unwrapped(i)
            /\ operands[i].cls = "PyccelAssociativeParenthesis" => Unwrapped(i)

\* and(x, or(a,b)) has been built: the or, of lower precedence, went through
\* both passes of PyccelAnd._handle_precedence and is wrapped once.
C8_Witness ==
    /\ stage = "syntactic"
    /\ Built({"PyccelAnd"})
    /\ operands[2].cls = "PyccelOr"
    /\ Wrapped(2)
    /\ node.args[2].args[1].cls = "PyccelOr"

\* ---- C9

TernaryBuilt == stage = "semantic" /\ Built({"IfTernaryOperator"})

value_true == operands[2]

value_false == operands[3]

BothNumeric == value_true.dtype \in NativeNumeric /\ value_false.dtype \in NativeNumeric

\* The branches are typed expressions of different kinds, one of them not
\* numeric.
IncompatibleKinds ==
    /\ value_true.cls # "Nil" /\ value_false.cls # "Nil"
    /\ value_true.dtype # value_false.dtype
    /\ ~BothNumeric

\* The kind of a ternary node over two numeric branches: the higher of the
\* two in bool < integer < real < complex; its precision: the larger one.
PromotedTernary ==
    (TernaryBuilt /\ node.error = "" /\ BothNumeric) =>
        /\ node.dtype \in {value_true.dtype, value_false.dtype}
        /\ NativeNumeric_index(node.dtype) >= NativeNumeric_index(value_true.dtype)
        /\ NativeNumeric_index(node.dtype) >= NativeNumeric_index(value_false.dtype)
        /\ node.precision = Some(Max(value_true.precision[1], value_false.precision[1]))
        /\ (/\ value_true.dtype = "integer" /\ value_true.precision = Some(4)
            /\ value_false.dtype = "real" /\ value_false.precision = Some(8)
            /\ value_true.rank = Some(0))
                => (node.dtype = "real" /\ node.precision = Some(8) /\ node.rank = Some(0))

\* value_true has rank > 1 and the branches differ in storage order: the
\* check made by _calculate_shape_rank, before those of __init__.
OrderCheckFails ==
    /\ value_true.rank # None
    /\ value_true.rank[1] > 1
    /\ value_false.order # value_true.order

C10_NilOrStringBranchIsFatal ==
    (TernaryBuilt /\ \E i \in {2, 3} : operands[i].cls = "Nil" \/ operands[i].dtype = "string")
        => IsFatal(node.error)

\* ---- C11

\* The branches of the ternary differ in rank, in shape, or, value_true
\* being of rank > 1, in storage order.
MismatchedBranches ==
    \/ value_false.rank # value_true.rank
    \/ value_false.shape # value_true.shape
    \/ OrderCheckFails

\* C11: the construction of a ternary node at the semantic stage fails with
\* a fatal error when the branches differ in rank, in shape, or (rank > 1) in
\* storage order; branches of ranks 1 and 0 are rejected; no ternary node
\* with mismatched branches is produced.
C11_MismatchedBranchesAreFatal ==
    TernaryBuilt =>
        /\ MismatchedBranches => IsFatal(node.error)
        /\ (value_true.rank = Some(1) /\ value_false.rank = Some(0)) => IsFatal(node.error)
        /\ node.error = "" =>
            /\ value_false.rank = value_true.rank
            /\ value_false.shape = value_true.shape
            /\ (value_true.rank # None /\ value_true.rank[1] > 1)
                    => value_false.order = value_true.order

\* A ternary over a rank 1 and a rank 0 real branch was rejected with the
\* rank error.
C11_Witness ==
    /\ TernaryBuilt
    /\ value_true.rank = Some(1) /\ value_false.rank = Some(0)
    /\ value_true.dtype = "real" /\ value_false.dtype = "real"
    /\ node.error = "fatal: rank"

\* Both branches of rank 2, of the same shape, column-major against
\* row-major: rejected with the order error.
C11_WitnessOrder ==
    /\ TernaryBuilt
    /\ value_true.rank = Some(2) /\ value_false.rank = Some(2)
    /\ value_true.shape = value_false.shape
    /\ value_true.order = "F" /\ value_false.order = "C"
    /\ node.error = "fatal: order"

\* ---- C12

\* C12 (as claimed): a ternary node that was built has the rank, the shape
\* and the storage order of value_true; over two column-major branches of
\* rank > 1 its order is column-major, whatever the condition.
C12_TernaryHasShapeRankOrderOfValueTrue ==
    (TernaryBuilt /\ node.error = "") =>
        /\ node.rank = value_true.rank
        /\ node.shape = value_true.shape
        /\ node.order = value_true.order

\* ---- C13

HasStringOperand == \E i \in DOMAIN operands : operands[i].dtype = "string"

\* C13: a binary arithmetic node with a string operand is built only by
\* addition, of strings only, and is then (string, no precision) of rank 0;
\* every other arithmetic operator on a string, and the addition of a string
\* with a number, fail and produce no node.
C13_OnlyAdditionOfStrings ==
    (stage = "semantic" /\ Built(ArithmeticOperators) /\ HasStringOperand) =>
        /\ node.error = "" <=> (node.cls = "PyccelAdd" /\ ~\E i \in 1..2 : operands[i].dtype \in NativeNumeric)
        /\ node.error = "" =>
            /\ node.dtype = "string"
            /\ node.precision = None
            /\ node.rank = Some(0)
            /\ node.shape = Some(<<>>)
        /\ node.error # "" => node.error \in {"TypeError", "AssertionError"}

\* The sum of two strings has been typed.
C13_Witness ==
    /\ Typed({"PyccelAdd"})
    /\ operands[1].dtype = "string" /\ operands[2].dtype = "string"
    /\ node.dtype = "string" /\ node.precision = None /\ node.rank = Some(0)

\* The product of two strings, and the sum of a string and an integer, have
\* been refused.
C13_WitnessRefused ==
    /\ stage = "semantic" /\ Built({"PyccelMul", "PyccelAdd"})
    /\ operands[1].dtype = "string"
    /\ \/ node.cls = "PyccelMul" /\ operands[2].dtype = "string" /\ node.error = "TypeError"
       \/ node.cls = "PyccelAdd" /\ operands[2].dtype = "integer" /\ node.error = "AssertionError"

\* ---- C14

\* rank and shape of a typed expression agree: when both are known the
\* shape has rank extents, and the rank is not negative.
RankShapeConsistent(a) ==
    /\ a.rank # None => a.rank[1] >= 0
    /\ (a.rank # None /\ a.shape # None) => Len(a.shape[1]) = a.rank[1]

OperatorClasses ==
    UnaryOperators \cup ArithmeticOperators \cup ComparisonOperators
        \cup BooleanOperators \cup {"IfTernaryOperator"}

\* C14: every operator node typed at the semantic stage from operands whose
\* shape has rank extents has itself a shape of rank extents and a rank that
\* is not negative, unknown extents included.
C14_ShapeLengthIsRank ==
    (Typed(OperatorClasses) /\ \A i \in DOMAIN operands : RankShapeConsistent(operands[i]))
        => RankShapeConsistent(node)

\* A binary arithmetic node of rank 2 over an operand with an unknown extent
\* has been typed: its shape is two unknown extents.
C14_Witness ==
    /\ Typed(ArithmeticOperators)
    /\ \E i \in 1..2 : operands[i].rank = Some(2) /\ NoneExtent \in {operands[i].shape[1][j] : j \in 1..2}
    /\ node.rank = Some(2)
    /\ node.shape = Some(<<NoneExtent, NoneExtent>>)

\* The negation of an array of rank 2 has been typed with its rank and shape.
C14_WitnessUnary ==
    /\ Typed({"PyccelUnarySub"})
    /\ operands[1].rank = Some(2)
    /\ node.rank = Some(2) /\ Len(node.shape[1]) = 2

\* ---- C15

Printed == stage \in {"wrapper", "interface"} /\ code # None

Called == stage \in {"wrapper", "interface"} /\ run # None

NotExposed == expr.node.is_private \/ has_FunctionAddress(expr.node)

\* The statements of a body that parse, check, extract or call.
ProcessesArguments(body) ==
    \E k \in DOMAIN body :
        \/ body[k].op \in {"If", "FunctionCall", "PyArgKeywords", "Deallocate", "Py_DECREF"}
        \/ body[k].op = "Assign" /\ body[k].on # "result"

\* C15: the adapter of a private function, or of a function with a callable
\* parameter, is exactly: set a NotImplementedError, set the result to null,
\* return; it parses, checks, extracts and calls nothing; a function that is
\* both gets the message of private functions.
C15_NotExposedAdapterOnlyRefuses ==
    (stage = "wrapper" /\ Printed /\ NotExposed) =>
        /\ Len(code[1].wrapper) = 3
        /\ code[1].wrapper[1].op = "PyErr_SetString"
        /\ code[1].wrapper[1].on = "PyExc_NotImplementedError"
        /\ code[1].wrapper[1].val =
                IF expr.node.is_private
                THEN "Private functions are not accessible from python"
                ELSE "Cannot pass a function as an argument"
        /\ code[1].wrapper[2] = Assign("result", 0, "Nil")
        /\ code[1].wrapper[3] = Return("result")
        /\ ~ProcessesArguments(code[1].wrapper)
        /\ Called =>
            /\ run[1].events = <<Event("PyErr_SetString", "PyExc_NotImplementedError", 0),
                                 Event("return", "Nil", 0)>>
            /\ run[1].returns = "Nil"

\* The adapter of a private function with a callable parameter was called:
\* it refused with the message of private functions.
C15_Witness ==
    /\ stage = "wrapper" /\ Called
    /\ expr.node.is_private /\ has_FunctionAddress(expr.node)
    /\ code[1].wrapper[1].val = "Private functions are not accessible from python"
    /\ run[1].returns = "Nil"

\* ---- C16

\* The events the block of a parameter leaves.
ParameterEvents == {"check", "extract", "default", "unset"}

Events == run[1].events

\* The caller gave for parameter j an object that is not of its type.
CheckFails(j) ==
    /\ ~run[1].call.objs[j].absent
    /\ TypeOf(expr.node.arguments[j]) \notin run[1].call.objs[j].passes

Happened(ev) == \E p \in DOMAIN Events : Events[p].ev = ev

SetsTypeError(p) ==
    Events[p].ev = "PyErr_SetString" /\ Events[p].on = "PyExc_TypeError"

\* C16: after a successful parse the parameters are checked and extracted in
\* the order of their declaration, each one checked before it is extracted;
\* at the first parameter whose check fails a TypeError is set and null is
\* returned, with no later parameter checked or extracted and without a call
\* of the function; the function is called only when the parse and every
\* check succeeded.
C16_ChecksInOrderAndFirstFailureReturns ==
    (stage = "wrapper" /\ Called /\ ~NotExposed) =>
        /\ \A p, q \in DOMAIN Events :
               (p < q /\ Events[p].ev \in ParameterEvents /\ Events[q].ev \in ParameterEvents)
                    => Events[p].i <= Events[q].i
        /\ \A q \in DOMAIN Events :
               Events[q].ev \in {"extract", "extent"} =>
                    \E p \in 1..(q - 1) : Events[p].ev = "check" /\ Events[p].i = Events[q].i
        /\ \A j \in DOMAIN expr.node.arguments :
               (run[1].call.parse_ok /\ CheckFails(j) /\ \A k \in 1..(j - 1) : ~CheckFails(k)) =>
                    /\ run[1].returns = "Nil"
                    /\ Len(Events) >= 3
                    /\ Events[Len(Events)] = Event("return", "Nil", 0)
                    /\ SetsTypeError(Len(Events) - 1)
                    /\ Events[Len(Events) - 2].ev = "check" /\ Events[Len(Events) - 2].i = j
                    /\ \A p \in DOMAIN Events :
                           Events[p].ev \in ParameterEvents \cup {"extent"} => Events[p].i <= j
                    /\ \A p \in DOMAIN Events :
                           ~(Events[p].ev \in {"extract", "extent"} /\ Events[p].i = j)
                    /\ ~Happened("call")
        /\ Happened("call") <=>
               (run[1].call.parse_ok /\ \A j \in DOMAIN expr.node.arguments : ~CheckFails(j))
        /\ \A q \in DOMAIN Events :
               Events[q].ev = "call" =>
                    \A j \in DOMAIN expr.node.arguments :
                        \E p \in 1..(q - 1) : Events[p].ev \in ParameterEvents /\ Events[p].i = j

\* A call with a good first and a bad second argument: the first was checked
\* and extracted, the second checked and refused, the function not called.
C16_Witness ==
    /\ stage = "wrapper" /\ Called /\ ~NotExposed
    /\ Len(expr.node.arguments) = 2
    /\ run[1].call.parse_ok /\ ~CheckFails(1) /\ CheckFails(2)
    /\ \E p, q \in DOMAIN Events :
            /\ p < q
            /\ Events[p].ev = "extract" /\ Events[p].i = 1
            /\ Events[q].ev = "check" /\ Events[q].i = 2
    /\ ~Happened("call")
    /\ run[1].returns = "Nil"

\* A call with two good arguments reached the function.
C16_WitnessCall ==
    /\ stage = "wrapper" /\ Called /\ ~NotExposed
    /\ Len(expr.node.arguments) = 2
    /\ run[1].call.parse_ok /\ ~CheckFails(1) /\ ~CheckFails(2)
    /\ Happened("call")
    /\ run[1].returns = "value"

\* ---- C17

Count(ev, on, i) ==
    Cardinality({p \in DOMAIN Events : Events[p] = Event(ev, on, i)})

\* C17 (as claimed): on every path through an adapter, the success path and
\* every early return, each result box and each array view allocated on the
\* path is released exactly once, and nothing is released that the path did
\* not allocate.
C17_EveryPathReleasesWhatItAllocated ==
    (stage = "wrapper" /\ Called) =>
        \A on \in {"box", "ndarray"}, i \in 1..(MaxArgs + MaxResults) :
            /\ Count("allocate", on, i) <= 1
            /\ Count("release", on, i) = Count("allocate", on, i)

\* ---- C18

Funcs == expr.node.functions

NArgs == Len(Funcs[1].arguments)

\* The sum of flag << 4 * (n - 1 - i) over the parameters, i counted from 0.
RECURSIVE KeySum(_, _)
KeySum(arguments, i) ==
    IF i = Len(arguments) THEN 0
    ELSE flags_registry(arguments[i + 1]) * 16 ^ (Len(arguments) - 1 - i)
         + KeySum(arguments, i + 1)

\* The checks the generated type_check function tries for parameter j, in
\* its order.
ChecksOf(j) == SubSeq(code[1].type_check[j + 1].sections, 1,
                      Len(code[1].type_check[j + 1].sections) - 1)

\* The type of the first check of parameter j that the given object passes.
FirstPassing(j) ==
    LET passing == {e \in DOMAIN ChecksOf(j) : ChecksOf(j)[e].cond.t \in run[1].call.objs[j].passes}
    IN  IF passing = {} THEN None
        ELSE Some(ChecksOf(j)[CHOOSE e \in passing : \A d \in passing : e <= d].cond.t)

Added == SelectSeq(Events, LAMBDA e : e.ev = "add")

\* C18: the key folded at generation for a function (key * 16 + flag over
\* its parameters) is the sum of flag << 4 * (n - 1 - i), and it is the value
\* type_check computes for a call where, for every parameter, the first
\* check that passes is the one of the type the function declares; on every
\* path without an error exactly one flag is added per parameter.
C18_GeneratedKeyIsCallTimeKey ==
    (stage = "interface" /\ Printed) =>
        /\ \A k \in DOMAIN Funcs : code[1].flags[k] = KeySum(Funcs[k].arguments, 0)
        /\ (Called /\ run[1].call.parse_ok) =>
            /\ \A k \in DOMAIN Funcs :
                    (\A j \in 1..NArgs : FirstPassing(j) = Some(TypeOf(Funcs[k].arguments[j])))
                        => run[1].check = code[1].flags[k]
            /\ (\A j \in 1..NArgs : FirstPassing(j) # None) =>
                    /\ Len(Added) = NArgs
                    /\ \A j \in 1..NArgs :
                            Added[j].i = flags_registry(FirstPassing(j)[1]) * 16 ^ (NArgs - j)
                    /\ run[1].check = Added[1].i + (IF NArgs > 1 THEN Added[2].i ELSE 0)
                                      + (IF NArgs > 2 THEN Added[3].i ELSE 0)
                                      + (IF NArgs > 3 THEN Added[4].i ELSE 0)

\* f(int32, int32) and f(real64, real64) called with two real64 objects: the
\* call computes 0xBB, the key of the second function.
C18_Witness ==
    /\ stage = "interface" /\ Called /\ run[1].call.parse_ok
    /\ NArgs = 2
    /\ \A j \in 1..2 : TypeOf(Funcs[1].arguments[j]) = Int32(0)
    /\ \A j \in 1..2 : TypeOf(Funcs[2].arguments[j]) = Real64(0)
    /\ \A j \in 1..2 : FirstPassing(j) = Some(Real64(0))
    /\ code[1].flags = <<85, 187>>
    /\ run[1].check = 187
    /\ Len(Added) = 2

\* ---- C19

DistinctKeys == \A k, l \in DOMAIN Funcs : k # l => code[1].flags[k] # code[1].flags[l]

Forwards == SelectSeq(Events, LAMBDA e : e.ev = "forward")

ParsedOnce ==
    Cardinality({p \in DOMAIN Events : Events[p].ev = "PyArg_ParseTupleAndKeywords"}) = 1

\* The dispatcher returned what the helper it forwarded to returned.
ReturnsResultOfHelper ==
    /\ Len(Events) >= 2
    /\ Events[Len(Events)].ev = "return"
    /\ Events[Len(Events) - 1].ev = "return"
    /\ Events[Len(Events)].on = Events[Len(Events) - 1].on
    /\ run[1].returns = Events[Len(Events)].on

\* C19: when the keys of the functions are pairwise distinct, a call whose
\* key is the key of function k is forwarded to the helper of k and to no
\* other, on the placeholders parsed once by the dispatcher, and the
\* dispatcher returns the result of that helper.
C19_DistinctKeysForwardToTheMatchingHelper ==
    (stage = "interface" /\ Called /\ run[1].call.parse_ok /\ DistinctKeys) =>
        \A k \in DOMAIN Funcs :
            run[1].check = code[1].flags[k] =>
                /\ Forwards = <<Event("forward", "mini_wrapper", k)>>
                /\ ParsedOnce
                /\ \A p \in DOMAIN Events :
                        Events[p].ev = "forward" =>
                            \E q \in 1..(p - 1) : Events[q].ev = "PyArg_ParseTupleAndKeywords"
                /\ \A p \in DOMAIN Events :
                        (Events[p].ev = "call" /\ Events[p].on = "function") => Events[p].i = k
                /\ ReturnsResultOfHelper

\* f(int32, int32) and f(real64, real64) called with two real64 objects: the
\* second helper ran, called the second function and its result came back.
C19_Witness ==
    /\ stage = "interface" /\ Called /\ run[1].call.parse_ok
    /\ NArgs = 2
    /\ \A j \in 1..2 : TypeOf(Funcs[1].arguments[j]) = Int32(0)
    /\ \A j \in 1..2 : TypeOf(Funcs[2].arguments[j]) = Real64(0)
    /\ \A j \in 1..2 : run[1].call.objs[j] = PyObject({Real64(0)})
    /\ DistinctKeys
    /\ Forwards = <<Event("forward", "mini_wrapper", 2)>>
    /\ Happened("call")
    /\ run[1].returns = "value"

\* ---- C20

\* The functions of the interface whose key is the key of the call.
KeyMatches == {k \in DOMAIN Funcs : code[1].flags[k] = run[1].check}

DuplicateKeyCalled ==
    /\ stage = "interface" /\ Called /\ run[1].call.parse_ok
    /\ Cardinality(KeyMatches) >= 2

\* C20 (as claimed): when two functions have the same key, a call with that
\* key is forwarded to the later of them and never to the earlier.
C20_LaterRegisteredWins ==
    DuplicateKeyCalled =>
        Forwards = <<Event("forward", "mini_wrapper",
                           CHOOSE k \in KeyMatches : \A l \in KeyMatches : l <= k)>>

\* C20 (amended): when two functions have the same key, a call with that key
\* is forwarded to the earlier of them and never to the later.
C20_EarlierRegisteredWins ==
    DuplicateKeyCalled =>
        Forwards = <<Event("forward", "mini_wrapper",
                           CHOOSE k \in KeyMatches : \A l \in KeyMatches : k <= l)>>

\* f(int32) registered twice and called with an int32 object: the first
\* helper ran and the second did not.
C20_Witness ==
    /\ DuplicateKeyCalled
    /\ NArgs = 1
    /\ TypeOf(Funcs[1].arguments[1]) = Int32(0)
    /\ TypeOf(Funcs[2].arguments[1]) = Int32(0)
    /\ KeyMatches = {1, 2}
    /\ Forwards = <<Event("forward", "mini_wrapper", 1)>>
    /\ \A p \in DOMAIN Events : Events[p].ev = "call" => Events[p].i = 1

\* ---- C21

NoForward == Forwards = <<>> /\ ~Happened("call")

\* The first parameter for which the object given passes no check.
FirstRefused ==
    LET refused == {j \in 1..NArgs : FirstPassing(j) = None}
    IN  IF refused = {} THEN 0 ELSE CHOOSE j \in refused : \A l \in refused : j <= l

TypeErrors == SelectSeq(Events, LAMBDA e : e.ev = "PyErr_SetString" /\ e.on = "PyExc_TypeError")

\* C21: (a) when no check of some parameter passes, type_check sets a
\* TypeError that names the parameter and the types it may have and returns
\* 0 without a check of a later parameter, and the dispatcher returns null;
\* (b) when every parameter passes a check and the key is the key of no
\* function, the dispatcher sets a TypeError and returns null; in both cases
\* and when the parse fails no helper and no function is called.
C21_DispatcherErrorOutcomes ==
    (stage = "interface" /\ Called) =>
        /\ ~run[1].call.parse_ok => (NoForward /\ run[1].returns = "Nil")
        /\ (run[1].call.parse_ok /\ FirstRefused # 0) =>
            /\ code[1].type_check[FirstRefused + 1].sections[Len(ChecksOf(FirstRefused)) + 1].body
                    = <<MustBe(FirstRefused,
                               [e \in DOMAIN ChecksOf(FirstRefused) |-> ChecksOf(FirstRefused)[e].cond.t]),
                        Return("0")>>
            /\ \A e \in DOMAIN ChecksOf(FirstRefused) :
                    ChecksOf(FirstRefused)[e].cond.t \in
                        {TypeOf(Funcs[k].arguments[FirstRefused]) : k \in DOMAIN Funcs}
            /\ TypeErrors = <<Event("PyErr_SetString", "PyExc_TypeError", FirstRefused)>>
            /\ \A p \in DOMAIN Events : Events[p].ev = "check" => Events[p].i <= FirstRefused
            /\ Len(Added) = FirstRefused - 1
            /\ run[1].check = 0
            /\ run[1].returns = "Nil"
            /\ NoForward
        /\ (run[1].call.parse_ok /\ FirstRefused = 0 /\ KeyMatches = {}) =>
            /\ TypeErrors = <<Event("PyErr_SetString", "PyExc_TypeError", 0)>>
            /\ run[1].returns = "Nil"
            /\ NoForward

\* f(int32, int32) and f(real64, real64) called with an int32 and a real64
\* object: both checks pass, no function has the key 0x5B, a TypeError is set.
C21_Witness ==
    /\ stage = "interface" /\ Called /\ run[1].call.parse_ok
    /\ NArgs = 2
    /\ \A j \in 1..2 : TypeOf(Funcs[1].arguments[j]) = Int32(0)
    /\ \A j \in 1..2 : TypeOf(Funcs[2].arguments[j]) = Real64(0)
    /\ run[1].call.objs = <<PyObject({Int32(0)}), PyObject({Real64(0)})>>
    /\ run[1].check = 91
    /\ Len(TypeErrors) = 1
    /\ run[1].returns = "Nil"
    /\ NoForward

\* The first of two parameters was given an object of no admissible type:
\* the second was not checked.
C21_WitnessRefused ==
    /\ stage = "interface" /\ Called /\ run[1].call.parse_ok
    /\ NArgs = 2
    /\ FirstRefused = 1
    /\ FirstPassing(2) # None
    /\ TypeErrors = <<Event("PyErr_SetString", "PyExc_TypeError", 1)>>
    /\ run[1].returns = "Nil"

\* ---- C22

\* C22 (as claimed): the text generated for an interface is the text any
\* other run generates for it: the order of the checks of a parameter and of
\* the types named in its error does not depend on the order in which the
\* set of its types is iterated.
C22_GenerationIsDeterministic ==
    (stage = "interface" /\ Printed) =>
        \A order \in Orders(Funcs) :
            code[1] = print_Interface(expr.node, expr.target_language, order)

\* ---- C23

Arguments == expr.node.arguments

\* The block of parameter j ran: the parse succeeded and no earlier
\* parameter was refused.
BlockRan(j) == run[1].call.parse_ok /\ \A k \in 1..(j - 1) : ~CheckFails(k)

\* The events the block of parameter j left.
EventsOf(j) ==
    SelectSeq(Events, LAMBDA e : e.ev \in ParameterEvents /\ e.i = j)

\* C23: in the adapter of a function, a scalar parameter with a default that
\* is not optional and was left out gets its default, unchecked; an optional
\* scalar left out is bound to null, and one that was given is checked,
\* extracted into a temporary and bound to it; an optional array left out is
\* bound to a null view, unchecked; none of these sets a TypeError.
C23_OmittedArguments ==
    (stage = "wrapper" /\ Called /\ ~NotExposed) =>
        /\ \A j \in DOMAIN Arguments :
            LET a == Arguments[j]
                absent == run[1].call.objs[j].absent
            IN  BlockRan(j) =>
                /\ (a.rank = 0 /\ a.value # None /\ ~a.is_optional /\ absent) =>
                        /\ EventsOf(j) = <<Event("default", "native", j)>>
                        /\ run[1].native[j] = "default"
                /\ (a.rank = 0 /\ a.is_optional /\ absent) =>
                        /\ EventsOf(j) = <<Event("unset", "native", j)>>
                        /\ run[1].native[j] = "Nil"
                /\ (a.rank = 0 /\ a.is_optional /\ ~absent /\ ~CheckFails(j)) =>
                        /\ EventsOf(j) = <<Event("check", "scalar_object_check", j),
                                           Event("extract", "Python_to_C", j)>>
                        /\ run[1].native[j] = "tmp"
                /\ (a.rank > 0 /\ a.is_optional /\ absent) =>
                        /\ EventsOf(j) = <<Event("unset", "native", j)>>
                        /\ run[1].native[j] = "Nil"
        /\ (run[1].call.parse_ok /\ \A j \in DOMAIN Arguments : ~CheckFails(j)) =>
                \A p \in DOMAIN Events : ~SetsTypeError(p)

\* f(x = 1.0, y: optional) called with no argument: x got its default, y is
\* unset, and the function was called.
C23_Witness ==
    /\ stage = "wrapper" /\ Called /\ ~NotExposed /\ run[1].call.parse_ok
    /\ Len(Arguments) = 2
    /\ Arguments[1].rank = 0 /\ Arguments[1].value # None /\ ~Arguments[1].is_optional
    /\ Arguments[2].rank = 0 /\ Arguments[2].is_optional
    /\ run[1].call.objs[1].absent /\ run[1].call.objs[2].absent
    /\ run[1].native = <<"default", "Nil">>
    /\ Happened("call")

\* An optional scalar that was given and an optional array that was left out.
C23_WitnessOptional ==
    /\ stage = "wrapper" /\ Called /\ ~NotExposed /\ run[1].call.parse_ok
    /\ Len(Arguments) = 2
    /\ Arguments[1].rank = 0 /\ Arguments[1].is_optional
    /\ Arguments[2].rank > 0 /\ Arguments[2].is_optional
    /\ ~run[1].call.objs[1].absent /\ ~CheckFails(1) /\ run[1].call.objs[2].absent
    /\ run[1].native = <<"tmp", "Nil">>
    /\ Happened("call")

\* ---- C24

\* The widths the registries have to cover: 8/16/32/64-bit integers,
\* 32/64-bit and extended reals, and the complex numbers of such reals.
RequiredKey ==
    \/ expr.dtype = "int" /\ expr.precision \in {1, 2, 4, 8}
    \/ expr.dtype \in {"real", "complex"} /\ expr.precision \in {4, 8, 16}

\* C24 (as claimed): both registries have an entry for every required
\* (kind, precision), and no entry for a number stands for a library type
\* of fewer bytes than the precision.
C24_RegistriesCoverEveryWidthWithoutNarrowing ==
    (stage = "registry" /\ code # None) =>
        /\ RequiredKey => (code[1].numpy_dtype # None /\ code[1].type_check # None)
        /\ (expr.dtype # "bool" /\ code[1].numpy_dtype # None) =>
                WidthOf(expr.platform, code[1].numpy_dtype[1]) >= expr.precision
        /\ (expr.dtype # "bool" /\ code[1].type_check # None) =>
                WidthOf(expr.platform, code[1].type_check[1]) >= expr.precision

\* ---- C25

\* The statements of a body and of the sections of its If blocks.
StatementsOf(body) ==
    Flatten([k \in DOMAIN body |->
                IF body[k].op = "If"
                THEN Flatten([e \in DOMAIN body[k].sections |-> body[k].sections[e].body])
                ELSE <<body[k]>>])

\* The place of the parse in the body of the wrapper.
ParseAt ==
    CHOOSE k \in DOMAIN code[1].wrapper :
        /\ code[1].wrapper[k].op = "If"
        /\ code[1].wrapper[k].sections[1].cond = not_PyArg_ParseTupleNode

\* The caller's array given for parameter j was written by the function.
Written(j) == \E p \in DOMAIN Events : Events[p].ev = "write" /\ Events[p].i = j

C25_WitnessFortran ==
    /\ stage = "wrapper" /\ Called /\ ~NotExposed
    /\ expr.target_language = "fortran"
    /\ Len(Arguments) >= 1
    /\ Arguments[1].rank = 1
    /\ ~run[1].call.objs[1].absent
    /\ Happened("call")
    /\ run[1].native[1] = "PyArray_DATA"
    /\ Written(1)

\* C26: a tree built from the printed operator classes, written out after
\* the insertion of its parentheses and read back with Python's precedence
\* and associativity, is the operator tree that was constructed.
C26_GroupingRoundTrip ==
    (stage = "syntactic" /\ node.error = "" /\ classes_of(operator_tree(node)) \subseteq PrintedClasses)
        => ast_parse(repr(node)) = operator_tree(node)

\* ---- C27

\* C27: when the dispatcher forwards a call to the helper of a function,
\* every object given has the type that function declares for its
\* parameter, rank included.
C27_ForwardedArgumentsHaveTheDeclaredRank ==
    (stage = "interface" /\ Called /\ run[1].call.parse_ok) =>
        \A k \in DOMAIN Funcs :
            Event("forward", "mini_wrapper", k) \in {Events[p] : p \in DOMAIN Events} =>
                \A j \in 1..NArgs :
                    TypeOf(Funcs[k].arguments[j]) \in run[1].call.objs[j].passes

\* ---- C28

\* The parameters of the interface that have a default value.
Defaulted == {j \in 1..NArgs : \E k \in DOMAIN Funcs : Funcs[k].arguments[j].value # None}

\* The placeholders the dispatcher assigns before it parses the arguments.
InitialisedBeforeParse ==
    {code[1].wrapper[q].i : q \in {r \in 1..(ParseAt - 1) :
                                        /\ code[1].wrapper[r].op = "Assign"
                                        /\ code[1].wrapper[r].on = "collect"}}

\* C28: the dispatcher of an interface initialises, before the parse, the
\* placeholder of every parameter that has a default and of no other, and an
\* argument left out is seen as 'no value': type_check does not refuse it
\* and the helper the call is forwarded to binds the default.
C28_EveryDefaultedPlaceholderIsInitialised ==
    (stage = "interface" /\ Printed) =>
        /\ InitialisedBeforeParse = Defaulted
        /\ (Called /\ run[1].call.parse_ok) =>
                \A j \in 1..NArgs :
                    run[1].call.objs[j].absent =>
                        /\ Event("PyErr_SetString", "PyExc_TypeError", j)
                                \notin {Events[p] : p \in DOMAIN Events}
                        /\ Forwards # <<>> =>
                                SelectSeq(EventsOf(j), LAMBDA e : e.ev # "check")
                                    = <<Event("default", "native", j)>>

\* ---- C29

KeysFolded == stage = "key" /\ code # None

\* C29: with every flag in 1..15 and 4 * n within the width of the dispatch
\* integer, two type tuples with the same key have the same flags at every
\* parameter, and no key is 0.
C29_KeysAreInjectiveAndNonZeroWithinTheWidth ==
    (KeysFolded /\ 4 * Len(expr.arguments_1) <= expr.width) =>
        /\ \A j \in DOMAIN expr.arguments_1 :
                /\ flags_registry(expr.arguments_1[j]) \in 1..15
                /\ flags_registry(expr.arguments_2[j]) \in 1..15
        /\ code[1].flags_1 = code[1].flags_2 =>
                \A j \in DOMAIN expr.arguments_1 :
                    flags_registry(expr.arguments_1[j]) = flags_registry(expr.arguments_2[j])
        /\ code[1].flags_1 # 0
        /\ code[1].flags_2 # 0

\* (int32, real64) and (real64, int32) in 8 bits: the keys 0x5B and 0xB5.
C29_Witness ==
    /\ KeysFolded
    /\ expr.width = 8
    /\ expr.arguments_1 = <<Int32(0), Real64(0)>>
    /\ expr.arguments_2 = <<Real64(0), Int32(0)>>
    /\ code[1].flags_1 = 91
    /\ code[1].flags_2 = 181

\* (int32, int64, real64) and (real64, int64, real64) in 8 bits: the first
\* flag is shifted out and both keys are 0x6B.
C29_WitnessCollision ==
    /\ KeysFolded
    /\ expr.width = 8
    /\ expr.arguments_1 = <<Int32(0), Int64(0), Real64(0)>>
    /\ expr.arguments_2 = <<Real64(0), Int64(0), Real64(0)>>
    /\ code[1].flags_1 = 107
    /\ code[1].flags_2 = 107

\* ---- C30

GivenNames == code[1].names

\* C30: in one generation of a module the global names given so far are
\* pairwise distinct, none is the name of a function of the module, and each
\* is recorded in the global names; every request got the requested name
\* when it was not among the names to avoid and otherwise a name that was
\* not among them.
C30_GlobalNamesAreUnique ==
    (stage = "module" /\ code # None) =>
        /\ \A p, q \in DOMAIN GivenNames : p # q => GivenNames[p].name # GivenNames[q].name
        /\ \A p \in DOMAIN GivenNames :
                /\ \A k \in DOMAIN expr.funcs : GivenNames[p].name # expr.funcs[k]
                /\ GivenNames[p].name \in code[1].global_names
                /\ GivenNames[p].name \notin GivenNames[p].avoided
                /\ GivenNames[p].requested \notin GivenNames[p].avoided
                        => GivenNames[p].name = GivenNames[p].requested

\* The module f with the functions f and f_wrapper: the entry point of f is
\* f_wrapper_0001, the one of f_wrapper is f_wrapper_wrapper, and the tables
\* are named.
C30_Witness ==
    /\ stage = "module" /\ code # None /\ code[1].tables
    /\ expr.funcs = <<<<"f">>, <<"f", "wrapper">>>>
    /\ expr.interfaces = <<>>
    /\ Len(GivenNames) = 4
    /\ GivenNames[1].name = <<"f", "wrapper", "0001">>
    /\ GivenNames[2].name = <<"f", "wrapper", "wrapper">>

\* Two interfaces in one module: the second type-check helper is
\* type_check_0001.
C30_WitnessInterfaces ==
    /\ stage = "module" /\ code # None /\ code[1].tables
    /\ Len(expr.interfaces) = 2
    /\ \E p, q \in DOMAIN GivenNames :
            /\ p < q
            /\ GivenNames[p].kind = "type_check" /\ GivenNames[p].name = <<"type", "check">>
            /\ GivenNames[q].kind = "type_check" /\ GivenNames[q].name = <<"type", "check", "0001">>

====
